---- MODULE Spec2Model ----
(***************************************************************************)
(* The Discovery Engine: a trace-scoped pipeline of event-triggered stages *)
(* (query-generator, exa-searcher, content-extractor, question-            *)
(* brainstormer, question-judger, report-compiler) between two API         *)
(* endpoints (research-starter, report-retriever).                         *)
(*                                                                         *)
(* Every handler is an async function; it is modelled as the steps between *)
(* its awaits on the shared resources: Run (from the delivery of the event *)
(* to the state.set of the artifact), Emit (the emit of the successor      *)
(* event) and EmitError (the emit of workflow.error).  The results of the  *)
(* external collaborators (completion service, search service, fetch,      *)
(* store and event bus failures, clock, API key presence) are parameters   *)
(* of the actions; each specification draws them from its own sets.        *)
(***************************************************************************)
EXTENDS Integers, Sequences, FiniteSets, TLC

(***************************************************************************)
(* Bounds of the model.                                                    *)
(***************************************************************************)
MaxTraces == 2      \* trace identifiers (and start requests under SpecTraces)
MaxStarts == 1      \* start requests under Spec, where every collaborator may fail
MaxEval == 7        \* length of an evaluated-question list (SpecCompiler)
MaxCompiles == 2    \* invocations of the report-compiler per trace (SpecCompiler)
MaxQuestions == 3   \* length of a generated-question list (SpecJudger)
MaxResults == 2     \* length of a search-result batch (SpecExtractor)
MaxQueries == 3     \* length of a generated-query list (SpecSearch)

(***************************************************************************)
(* Program constants.                                                      *)
(***************************************************************************)
TOP_N_QUESTIONS == 5

(***************************************************************************)
(* Optional values: state.get returns undefined on a miss.                 *)
(***************************************************************************)
None == <<>>
Some(v) == <<v>>

Min(a, b) == IF a <= b THEN a ELSE b

Range(s) == {s[i] : i \in 1..Len(s)}

\* JavaScript truthiness of an optional string (undefined and "" are falsy)
Undefined == "undefined"
Truthy(s) == s \notin {Undefined, ""}

TraceIds == 1..MaxTraces
Topics == {"quantum computing", "drug discovery"}
Timestamps == {"2025-05-01T10:00:00.000Z", "2025-05-01T10:00:01.000Z"}

ArtifactNames ==
  {"seed_topic", "generated_queries", "exa_search_results", "extracted_content",
   "generated_questions", "evaluated_questions", "final_report"}

\* a key that leaves the trace identifier out
StoreKeyUnscoped(traceId, name) == <<1, name>>

\* `${traceId}:${artifactName}`
StoreKey(traceId, name) == <<traceId, name>>

StoreKeys == TraceIds \X ArtifactNames

Stages ==
  {"research-starter", "query-generator", "exa-searcher", "content-extractor",
   "question-brainstormer", "question-judger", "report-compiler"}

\* a question-brainstormer subscribed to the search results instead of the
\* extraction results
SubscribesSearchResults(stage) ==
  CASE stage = "query-generator" -> "topic.seeded"
    [] stage = "exa-searcher" -> "queries.generated"
    [] stage = "content-extractor" -> "search_results.obtained"
    [] stage = "question-brainstormer" -> "search_results.obtained"
    [] stage = "question-judger" -> "questions.generated"
    [] stage = "report-compiler" -> "questions.judged"

\* the `subscribes` entry of each step's config
Subscribes(stage) ==
  CASE stage = "query-generator" -> "topic.seeded"
    [] stage = "exa-searcher" -> "queries.generated"
    [] stage = "content-extractor" -> "search_results.obtained"
    [] stage = "question-brainstormer" -> "content.extracted"
    [] stage = "question-judger" -> "questions.generated"
    [] stage = "report-compiler" -> "questions.judged"

\* the topic each step emits on success (the `emits` entry of its config)
Emits(stage) ==
  CASE stage = "research-starter" -> "topic.seeded"
    [] stage = "query-generator" -> "queries.generated"
    [] stage = "exa-searcher" -> "search_results.obtained"
    [] stage = "content-extractor" -> "content.extracted"
    [] stage = "question-brainstormer" -> "questions.generated"
    [] stage = "question-judger" -> "questions.judged"
    [] stage = "report-compiler" -> "report.generated"

\* the artifact each step writes with state.set
\* a question-judger that stores its list under the report's key
ArtifactSharedReport(stage) ==
  CASE stage = "research-starter" -> "seed_topic"
    [] stage = "query-generator" -> "generated_queries"
    [] stage = "exa-searcher" -> "exa_search_results"
    [] stage = "content-extractor" -> "extracted_content"
    [] stage = "question-brainstormer" -> "generated_questions"
    [] stage = "question-judger" -> "final_report"
    [] stage = "report-compiler" -> "final_report"

Artifact(stage) ==
  CASE stage = "research-starter" -> "seed_topic"
    [] stage = "query-generator" -> "generated_queries"
    [] stage = "exa-searcher" -> "exa_search_results"
    [] stage = "content-extractor" -> "extracted_content"
    [] stage = "question-brainstormer" -> "generated_questions"
    [] stage = "question-judger" -> "evaluated_questions"
    [] stage = "report-compiler" -> "final_report"

PipelineTopics ==
  {"topic.seeded", "queries.generated", "search_results.obtained", "content.extracted",
   "questions.generated", "questions.judged", "report.generated"}

VARIABLES
  store,       \* the trace state store: StoreKeys -> None | Some(value)
  emitted,     \* per traceId of the payload, the events emitted so far, in order
  inbox,       \* per traceId, the subscribers an emitted event still has to be delivered to
  pc,          \* per traceId and stage, the position of the handler invocation
  local,       \* per traceId and stage, the handler's local result or error message
  issued,      \* the identifiers randomUUID has returned so far, in order
  startResp,   \* per traceId, the statuses the start endpoint has returned
  reportResp,  \* the report endpoint's response the client has not read yet
  calls        \* per traceId, the requests made to the external services, in order

vars == <<store, emitted, inbox, pc, local, issued, startResp, reportResp, calls>>

Init ==
  /\ store = [k \in StoreKeys |-> None]
  /\ emitted = [t \in TraceIds |-> <<>>]
  /\ inbox = [t \in TraceIds |-> {}]
  /\ pc = [t \in TraceIds |-> [s \in Stages |-> "idle"]]
  /\ local = [t \in TraceIds |-> [s \in Stages |-> None]]
  /\ issued = <<>>
  /\ startResp = [t \in TraceIds |-> <<>>]
  /\ reportResp = None
  /\ calls = [t \in TraceIds |-> <<>>]

(***************************************************************************)
(* The event bus: emit appends to the history of the payload's trace and   *)
(* hands the event to every subscriber of its topic.                       *)
(***************************************************************************)
Event(topic, data) == [topic |-> topic, data |-> data]

EmittedTopics(t) == {emitted[t][i].topic : i \in 1..Len(emitted[t])}

\* the payload of the latest event of the topic emitted for the trace
Payload(t, topic) ==
  LET idx == {i \in 1..Len(emitted[t]) : emitted[t][i].topic = topic}
      last == CHOOSE i \in idx : \A j \in idx : j <= i
  IN emitted[t][last].data

Subscribed(topic) == {s \in Stages \ {"research-starter"} : Subscribes(s) = topic}

Emit(topic, data) ==
  /\ emitted' = [emitted EXCEPT ![data.traceId] = Append(@, Event(topic, data))]
  /\ inbox' = [inbox EXCEPT ![data.traceId] = @ \cup Subscribed(topic)]

WorkflowError(traceId, step, error) ==
  [traceId |-> traceId, step |-> step, error |-> error]

\* the router invokes the handler of `stage` with the event it subscribes to
Deliver(t, stage) ==
  /\ stage \in inbox[t]
  /\ pc[t][stage] \in {"idle", "done", "rejected"}
  /\ inbox' = [inbox EXCEPT ![t] = @ \ {stage}]

\* the payload the handler of `stage` is invoked with
Input(t, stage) == Payload(t, Subscribes(stage))

\* a request to an external service (completion, search, fetch) or a delay
Call(service, stage, arg) == [service |-> service, stage |-> stage, arg |-> arg]

\* a state.set that is not awaited: the write has not landed when the handler goes on
StateSetNotAwaited(key, value) == UNCHANGED store

\* await state.set(key, value), when the store accepts the write
StateSet(key, value) == store' = [store EXCEPT ![key] = Some(value)]

Goto(t, stage, where, value) ==
  /\ pc' = [pc EXCEPT ![t][stage] = where]
  /\ local' = [local EXCEPT ![t][stage] = value]

\* the message of the error a failed emit throws, as the catch of the stage reports it
EmitFailure(stage) ==
  IF stage = "question-judger" THEN "Critical error in evaluation step: emit failed"
  ELSE "emit failed"

\* await emit(successor) at the end of a handler; inTry: the await is inside the
\* handler's try block, so a failure reaches its catch
EmitSuccessor(t, stage, data, emitOk, inTry) ==
  /\ pc[t][stage] = "emit"
  /\ IF emitOk
       THEN Emit(Emits(stage), data) /\ Goto(t, stage, "done", None)
       ELSE /\ UNCHANGED <<emitted, inbox>>
            /\ IF inTry
                 THEN Goto(t, stage, "error", Some(EmitFailure(stage)))
                 ELSE Goto(t, stage, "rejected", Some(EmitFailure(stage)))

\* a catch that reports the error and then falls through to the stage's emit
EmitWorkflowErrorAndGoOn(t, stage, emitOk, swallow) ==
  /\ pc[t][stage] = "error"
  /\ IF emitOk
       THEN /\ Emit("workflow.error", WorkflowError(t, stage, local[t][stage][1]))
            /\ Goto(t, stage, "emit", local[t][stage])
       ELSE /\ UNCHANGED <<emitted, inbox>>
            /\ Goto(t, stage, IF swallow THEN "done" ELSE "rejected", Some(EmitFailure(stage)))

\* await emit('workflow.error', {traceId, step, error}); swallow: the await is
\* itself guarded by a try/catch that only logs
EmitWorkflowError(t, stage, emitOk, swallow) ==
  /\ pc[t][stage] = "error"
  /\ IF emitOk
       THEN /\ Emit("workflow.error", WorkflowError(t, stage, local[t][stage][1]))
            /\ Goto(t, stage, "done", None)
       ELSE /\ UNCHANGED <<emitted, inbox>>
            /\ Goto(t, stage, IF swallow THEN "done" ELSE "rejected", Some(EmitFailure(stage)))

(***************************************************************************)
(* research-starter: POST /start-research                                  *)
(***************************************************************************)
\* crypto.randomUUID(): an identifier it has not returned before
randomUUID(previous) ==
  CHOOSE id \in TraceIds \ Range(previous) : \A other \in TraceIds \ Range(previous) : id <= other

\* an identifier generated once, when the module is loaded
NewTraceIdOfModule(previous, seed_topic) == 1

\* const traceId = randomUUID()
NewTraceId(previous, seed_topic) == randomUUID(previous)

\* from the request to `await state.set(`${traceId}:seed_topic`, body.seed_topic)`
ResearchStarterRun(seed_topic, setOk) ==
  /\ LET traceId == NewTraceId(issued, seed_topic) IN
       /\ issued' = Append(issued, traceId)
       /\ IF setOk
            THEN /\ StateSet(StoreKey(traceId, Artifact("research-starter")), seed_topic)
                 /\ Goto(traceId, "research-starter", "emit",
                         Some([traceId |-> traceId, topic |-> seed_topic]))
                 /\ UNCHANGED startResp
            ELSE \* state.set is outside the try: the handler rejects
                 /\ startResp' = [startResp EXCEPT ![traceId] = Append(@, "threw")]
                 /\ Goto(traceId, "research-starter", "rejected", Some("state.set failed"))
                 /\ UNCHANGED store
  /\ UNCHANGED <<emitted, inbox, reportResp, calls>>

\* a handler that answers 200 without emitting topic.seeded
ResearchStarterReturnsOnly(t, emitOk) ==
  /\ pc[t]["research-starter"] = "emit"
  /\ startResp' = [startResp EXCEPT ![t] = Append(@, "200")]
  /\ Goto(t, "research-starter", "done", None)
  /\ UNCHANGED <<store, emitted, inbox, issued, reportResp, calls>>

\* try { await context.emit({ topic: 'topic.seeded', data: payload }) } catch { return 500 }
\* return { status: 200, body: { traceId } }
ResearchStarterEmit(t, emitOk) ==
  /\ pc[t]["research-starter"] = "emit"
  /\ IF emitOk
       THEN /\ Emit(Emits("research-starter"), local[t]["research-starter"][1])
            /\ startResp' = [startResp EXCEPT ![t] = Append(@, "200")]
       ELSE /\ UNCHANGED <<emitted, inbox>>
            /\ startResp' = [startResp EXCEPT ![t] = Append(@, "500")]
  /\ Goto(t, "research-starter", "done", None)
  /\ UNCHANGED <<store, issued, reportResp, calls>>

(***************************************************************************)
(* report-retriever: GET /api/reports?traceId=...                          *)
(* The query parameter 0 stands for a missing or empty traceId.            *)
(***************************************************************************)
QueryParams == 0..MaxTraces

Response(traceId, status, body, getThrew) ==
  [traceId |-> traceId, status |-> status, body |-> body, getThrew |-> getThrew]

\* a handler that answers 200 with whatever state.get returned
ReportRetrieverAlwaysFound(traceId, getOk) ==
  /\ reportResp = None
  /\ reportResp' =
       IF traceId = 0
         THEN Some(Response(traceId, 400, None, FALSE))
       ELSE IF ~getOk
         THEN Some(Response(traceId, 500, None, TRUE))
       ELSE Some(Response(traceId, 200, store[StoreKey(traceId, "final_report")], FALSE))
  /\ UNCHANGED <<store, emitted, inbox, pc, local, issued, startResp, calls>>

\* a handler that removes the report from the store once it has returned it
ReportRetrieverConsumes(traceId, getOk) ==
  /\ reportResp = None
  /\ reportResp' =
       IF traceId = 0
         THEN Some(Response(traceId, 400, None, FALSE))
       ELSE IF ~getOk
         THEN Some(Response(traceId, 500, None, TRUE))
       ELSE LET report == store[StoreKey(traceId, "final_report")] IN
         IF report # None
           THEN Some(Response(traceId, 200, report, FALSE))
           ELSE Some(Response(traceId, 404, None, FALSE))
  /\ store' = IF traceId # 0 /\ getOk
                THEN [store EXCEPT ![StoreKey(traceId, "final_report")] = None]
                ELSE store
  /\ UNCHANGED <<emitted, inbox, pc, local, issued, startResp, calls>>

ReportRetrieverHandler(traceId, getOk) ==
  /\ reportResp = None
  /\ reportResp' =
       IF traceId = 0
         THEN Some(Response(traceId, 400, None, FALSE))
       ELSE IF ~getOk
         THEN Some(Response(traceId, 500, None, TRUE))
       ELSE LET report == store[StoreKey(traceId, "final_report")] IN
         IF report # None
           THEN Some(Response(traceId, 200, report, FALSE))
           ELSE Some(Response(traceId, 404, None, FALSE))
  /\ UNCHANGED <<store, emitted, inbox, pc, local, issued, startResp, calls>>

\* the polling client reads the response
ClientReadsResponse ==
  /\ reportResp # None
  /\ reportResp' = None
  /\ UNCHANGED <<store, emitted, inbox, pc, local, issued, startResp, calls>>

(***************************************************************************)
(* The completion service.  A completion is the text of the first choice:  *)
(* a JSON value when JSON.parse accepts it, and in any case the substrings *)
(* between double quotes that the regular expression /"(.*?)"/g finds.     *)
(***************************************************************************)
JString(str) == [type |-> "string", str |-> str]
JNumber == [type |-> "number"]
JArray(items) == [type |-> "array", items |-> items]
JObject(keys, values) == [type |-> "object", keys |-> keys, values |-> values]

RECURSIVE Flatten(_)
Flatten(seqs) == IF seqs = <<>> THEN <<>> ELSE Head(seqs) \o Flatten(Tail(seqs))

\* the quoted substrings of the text of a JSON value, in document order
\* (values nest at most two levels: an object of arrays of scalars)
QuotedScalar(v) == IF v.type = "string" THEN <<v.str>> ELSE <<>>

QuotedValue(v) ==
  IF v.type = "array" THEN Flatten([i \in 1..Len(v.items) |-> QuotedScalar(v.items[i])])
  ELSE QuotedScalar(v)

QuotedSubstrings(v) ==
  IF v.type = "object"
    THEN Flatten([i \in 1..Len(v.keys) |-> <<v.keys[i]>> \o QuotedValue(v.values[i])])
    ELSE QuotedValue(v)

ChatThrows == [kind |-> "throw"]
ChatEmpty == [kind |-> "empty"]
ChatText(quoted) == [kind |-> "text", quoted |-> quoted]
ChatJson(json) == [kind |-> "json", json |-> json, quoted |-> QuotedSubstrings(json)]

\* array.filter(q => typeof q === 'string')
StringsOf(items) ==
  LET strings == SelectSeq(items, LAMBDA q : q.type = "string")
  IN [i \in 1..Len(strings) |-> strings[i].str]

\* parsed[key] && Array.isArray(parsed[key])
HasArrayField(json, key) ==
  /\ json.type = "object"
  /\ \E i \in 1..Len(json.keys) : json.keys[i] = key /\ json.values[i].type = "array"

Field(json, key) ==
  json.values[CHOOSE i \in 1..Len(json.keys) : json.keys[i] = key]

Parsed(ok, list, error) == [ok |-> ok, list |-> list, error |-> error]

(***************************************************************************)
(* query-generator                                                         *)
(***************************************************************************)
\* a parse that hands on whatever list it ends with, the empty one included
ParseQueriesAcceptsEmpty(c) ==
  IF c.kind = "json" /\ c.json.type = "array" THEN Parsed(TRUE, StringsOf(c.json.items), "")
  ELSE IF c.kind = "json" /\ HasArrayField(c.json, "queries")
    THEN Parsed(TRUE, StringsOf(Field(c.json, "queries").items), "")
  ELSE Parsed(TRUE, c.quoted, "")

\* the try/catch around JSON.parse(rawQueries), with its regex fallback
ParseQueries(c) ==
  LET strict ==
        IF c.kind # "json" THEN Parsed(FALSE, <<>>, "Unexpected token")
        ELSE IF c.json.type = "array" THEN Parsed(TRUE, StringsOf(c.json.items), "")
        ELSE IF HasArrayField(c.json, "queries")
          THEN Parsed(TRUE, StringsOf(Field(c.json, "queries").items), "")
        ELSE Parsed(FALSE, <<>>, "Could not find expected queries array in OpenAI JSON response.")
      generatedQueries == IF strict.ok THEN strict.list ELSE c.quoted
  IN IF ~strict.ok /\ generatedQueries = <<>>
       THEN Parsed(FALSE, <<>>, "Could not parse or extract queries from OpenAI response")
     ELSE IF generatedQueries = <<>>
       THEN Parsed(FALSE, <<>>, "No valid queries were generated or extracted.")
     ELSE Parsed(TRUE, generatedQueries, "")

\* the body of the outer try: completion request, parse
GenerateQueries(c) ==
  IF c.kind = "throw" THEN Parsed(FALSE, <<>>, "Request timed out.")
  ELSE IF c.kind = "empty" THEN Parsed(FALSE, <<>>, "OpenAI response content is empty.")
  ELSE ParseQueries(c)

\* a handler that asks once more when the completion failed or came back empty
QueryGeneratorRunRetriesOnce(t, hasKey, c, setOk) ==
  /\ Deliver(t, "query-generator")
  /\ LET payload == Input(t, "query-generator")
         traceId == payload.traceId
         result == GenerateQueries(c)
     IN /\ IF ~hasKey
             THEN Goto(traceId, "query-generator", "error", Some("Missing OpenAI API Key"))
                  /\ UNCHANGED store
           ELSE IF ~result.ok
             THEN Goto(traceId, "query-generator", "error", Some(result.error))
                  /\ UNCHANGED store
           ELSE IF ~setOk
             THEN Goto(traceId, "query-generator", "error", Some("state.set failed"))
                  /\ UNCHANGED store
           ELSE /\ StateSet(StoreKey(traceId, Artifact("query-generator")), result.list)
                /\ Goto(traceId, "query-generator", "emit", Some(result.list))
        /\ calls' = [calls EXCEPT ![traceId] =
                       IF hasKey /\ c.kind \in {"throw", "empty"}
                         THEN @ \o << Call("completion", "query-generator", payload.topic),
                                      Call("completion", "query-generator", payload.topic) >>
                       ELSE IF hasKey
                         THEN Append(@, Call("completion", "query-generator", payload.topic))
                       ELSE @]
  /\ UNCHANGED <<emitted, issued, startResp, reportResp>>

QueryGeneratorRun(t, hasKey, c, setOk) ==
  /\ Deliver(t, "query-generator")
  /\ LET payload == Input(t, "query-generator")
         traceId == payload.traceId
         result == GenerateQueries(c)
     IN /\ IF ~hasKey
             THEN Goto(traceId, "query-generator", "error", Some("Missing OpenAI API Key"))
                  /\ UNCHANGED store
           ELSE IF ~result.ok
             THEN Goto(traceId, "query-generator", "error", Some(result.error))
                  /\ UNCHANGED store
           ELSE IF ~setOk
             THEN Goto(traceId, "query-generator", "error", Some("state.set failed"))
                  /\ UNCHANGED store
           ELSE /\ StateSet(StoreKey(traceId, Artifact("query-generator")), result.list)
                /\ Goto(traceId, "query-generator", "emit", Some(result.list))
        /\ calls' = [calls EXCEPT ![traceId] =
                       IF hasKey THEN Append(@, Call("completion", "query-generator", payload.topic))
                       ELSE @]
  /\ UNCHANGED <<emitted, issued, startResp, reportResp>>

QueryGeneratorEmit(t, emitOk) ==
  /\ EmitSuccessor(t, "query-generator",
                   [traceId |-> t, queries |-> local[t]["query-generator"][1]], emitOk, TRUE)
  /\ UNCHANGED <<store, issued, startResp, reportResp, calls>>

QueryGeneratorEmitError(t, emitOk) ==
  /\ EmitWorkflowError(t, "query-generator", emitOk, FALSE)
  /\ UNCHANGED <<store, issued, startResp, reportResp, calls>>

(***************************************************************************)
(* exa-searcher                                                            *)
(***************************************************************************)
SearchResult(url, title) == [url |-> url, title |-> title]

\* the outcome of exa.searchAndContents(query): it throws, or returns results
SearchThrows == [threw |-> TRUE, results |-> <<>>]
SearchReturns(results) == [threw |-> FALSE, results |-> results]

\* a loop over the queries that the first failed search ends
AllResultsUntilFailure(queries, outcomes) ==
  Flatten([i \in 1..Len(queries) |->
             IF \E j \in 1..i : outcomes[j].threw THEN <<>> ELSE outcomes[i].results])

\* the loop over the queries: allResults and errors
AllResults(queries, outcomes) ==
  Flatten([i \in 1..Len(queries) |-> outcomes[i].results])

SearchErrors(queries, outcomes) ==
  Flatten([i \in 1..Len(queries) |->
             IF outcomes[i].threw THEN <<[query |-> queries[i], error |-> "Exa request failed"]>>
             ELSE <<>>])

\* a check that escalates failed searches only, not searches that found nothing
EscalatesOnlyFailures(allResults, errors) == allResults = <<>> /\ errors # <<>>

\* if (allResults.length === 0)
Escalates(allResults, errors) == allResults = <<>>

\* a handler that looks for the API key only after the searches were requested
ExaSearcherRunChecksKeyLate(t, hasKey, outcomes, setOk) ==
  /\ Deliver(t, "exa-searcher")
  /\ LET payload == Input(t, "exa-searcher")
         traceId == payload.traceId
         allResults == AllResults(payload.queries, outcomes)
         errors == SearchErrors(payload.queries, outcomes)
     IN /\ Len(outcomes) = Len(payload.queries)
        /\ IF ~hasKey
             THEN Goto(traceId, "exa-searcher", "error", Some("Missing Exa API Key"))
                  /\ UNCHANGED store
           ELSE IF Escalates(allResults, errors)
             THEN Goto(traceId, "exa-searcher", "error",
                       Some(IF errors # <<>> THEN "Failed to get results for any query."
                            ELSE "No search results found for any query."))
                  /\ UNCHANGED store
           ELSE IF ~setOk
             THEN \* state.set is outside any try: the handler rejects
                  Goto(traceId, "exa-searcher", "rejected", Some("state.set failed"))
                  /\ UNCHANGED store
           ELSE /\ StateSet(StoreKey(traceId, Artifact("exa-searcher")), allResults)
                /\ Goto(traceId, "exa-searcher", "emit",
                        Some([traceId |-> traceId, results |-> allResults, errors |-> errors]))
        /\ calls' = [calls EXCEPT ![traceId] =
                       @ \o [i \in 1..Len(payload.queries) |->
                              Call("search", "exa-searcher", payload.queries[i])]]
  /\ UNCHANGED <<emitted, issued, startResp, reportResp>>

ExaSearcherRun(t, hasKey, outcomes, setOk) ==
  /\ Deliver(t, "exa-searcher")
  /\ LET payload == Input(t, "exa-searcher")
         traceId == payload.traceId
         allResults == AllResults(payload.queries, outcomes)
         errors == SearchErrors(payload.queries, outcomes)
     IN /\ Len(outcomes) = Len(payload.queries)
        /\ IF ~hasKey
             THEN Goto(traceId, "exa-searcher", "error", Some("Missing Exa API Key"))
                  /\ UNCHANGED store
           ELSE IF Escalates(allResults, errors)
             THEN Goto(traceId, "exa-searcher", "error",
                       Some(IF errors # <<>> THEN "Failed to get results for any query."
                            ELSE "No search results found for any query."))
                  /\ UNCHANGED store
           ELSE IF ~setOk
             THEN \* state.set is outside any try: the handler rejects
                  Goto(traceId, "exa-searcher", "rejected", Some("state.set failed"))
                  /\ UNCHANGED store
           ELSE /\ StateSet(StoreKey(traceId, Artifact("exa-searcher")), allResults)
                /\ Goto(traceId, "exa-searcher", "emit",
                        Some([traceId |-> traceId, results |-> allResults, errors |-> errors]))
        /\ calls' = [calls EXCEPT ![traceId] =
                       IF hasKey
                         THEN @ \o [i \in 1..Len(payload.queries) |->
                                     Call("search", "exa-searcher", payload.queries[i])]
                         ELSE @]
  /\ UNCHANGED <<emitted, issued, startResp, reportResp>>

ExaSearcherEmit(t, emitOk) ==
  /\ EmitSuccessor(t, "exa-searcher",
                   local[t]["exa-searcher"][1], emitOk, FALSE)
  /\ UNCHANGED <<store, issued, startResp, reportResp, calls>>

ExaSearcherEmitError(t, emitOk) ==
  /\ EmitWorkflowError(t, "exa-searcher", emitOk, FALSE)
  /\ UNCHANGED <<store, issued, startResp, reportResp, calls>>

(***************************************************************************)
(* content-extractor                                                       *)
(***************************************************************************)
MAX_RETRIES == 2

ExtractedContent(url, title, content, excerpt, error) ==
  [url |-> url, title |-> title, content |-> content, excerpt |-> excerpt, error |-> error]

\* what one fetch attempt meets: "ok" (2xx, text/html, Readability finds text),
\* "http_error" (non-2xx), "non_html" (2xx, another content type), "no_content"
\* (Readability finds nothing), "network_error", "timeout" (the abort fires)
FetchKinds == {"ok", "http_error", "non_html", "no_content", "network_error", "timeout"}

Article(title, textContent, excerpt) ==
  [title |-> title, textContent |-> textContent, excerpt |-> excerpt]

FetchOutcome(kind, article) == [kind |-> kind, article |-> article]

NoArticle == Article("", "", Undefined)

\* String.prototype.trim on the texts of the model: a text of white space only
\* becomes empty, the other texts have no white space at either end
Whitespace == {" ", " \n "}
Trim(s) == IF s \in Whitespace THEN "" ELSE s

FetchErrorMessage(kind) ==
  CASE kind = "http_error" -> "HTTP error! status: 404"
    [] kind = "no_content" -> "Readability could not extract content"
    [] kind = "network_error" -> "request failed"
    [] kind = "timeout" -> "Fetch timed out after 15s"

RETRY_DELAY == 1000

\* a catch that waits after every failed attempt, the last one included
DelaysAfterEveryAttempt(attempt) == TRUE

\* if (attempt <= MAX_RETRIES) await delay(RETRY_DELAY)
DelaysAfter(attempt) == attempt <= MAX_RETRIES

\* a while loop that leaves `success` unset on a non-HTML answer
RECURSIVE FetchLoopRetriesNonHtml(_, _, _, _, _)
FetchLoopRetriesNonHtml(result, outcomes, attempt, success, acc) ==
  IF ~(attempt < MAX_RETRIES + 1 /\ ~success) THEN acc
  ELSE
    LET n == attempt + 1
        o == outcomes[n]
        fetched == Append(acc.calls, Call("fetch", "content-extractor", result.url))
    IN IF o.kind = "non_html"
         THEN FetchLoopRetriesNonHtml(result, outcomes, n, FALSE,
                [extracted |-> Some(ExtractedContent(result.url, result.title, "", Undefined,
                                                     "Skipped non-HTML content type")),
                 calls |-> fetched])
       ELSE IF o.kind = "ok"
         THEN FetchLoopRetriesNonHtml(result, outcomes, n, TRUE,
                [extracted |-> Some(ExtractedContent(result.url,
                                      IF Truthy(o.article.title) THEN o.article.title ELSE result.title,
                                      Trim(o.article.textContent), o.article.excerpt, Undefined)),
                 calls |-> fetched])
       ELSE FetchLoopRetriesNonHtml(result, outcomes, n, FALSE,
                [extracted |-> Some(ExtractedContent(result.url, result.title, "", Undefined,
                                                     FetchErrorMessage(o.kind))),
                 calls |-> IF DelaysAfter(n)
                             THEN Append(fetched, Call("delay", "content-extractor", RETRY_DELAY))
                             ELSE fetched])

\* the while loop over the attempts for one search result; acc carries the last
\* `extracted` and the fetches and delays made
RECURSIVE FetchLoop(_, _, _, _, _)
FetchLoop(result, outcomes, attempt, success, acc) ==
  IF ~(attempt < MAX_RETRIES + 1 /\ ~success) THEN acc
  ELSE
    LET n == attempt + 1
        o == outcomes[n]
        fetched == Append(acc.calls, Call("fetch", "content-extractor", result.url))
    IN IF o.kind = "non_html"
         THEN FetchLoop(result, outcomes, n, TRUE,
                [extracted |-> Some(ExtractedContent(result.url, result.title, "", Undefined,
                                                     "Skipped non-HTML content type")),
                 calls |-> fetched])
       ELSE IF o.kind = "ok"
         THEN FetchLoop(result, outcomes, n, TRUE,
                [extracted |-> Some(ExtractedContent(result.url,
                                      IF Truthy(o.article.title) THEN o.article.title ELSE result.title,
                                      Trim(o.article.textContent), o.article.excerpt, Undefined)),
                 calls |-> fetched])
       ELSE FetchLoop(result, outcomes, n, FALSE,
                [extracted |-> Some(ExtractedContent(result.url, result.title, "", Undefined,
                                                     FetchErrorMessage(o.kind))),
                 calls |-> IF DelaysAfter(n)
                             THEN Append(fetched, Call("delay", "content-extractor", RETRY_DELAY))
                             ELSE fetched])

\* an iteration that records nothing for a URL whose extraction failed
ExtractResultDropsFailed(result, outcomes) ==
  LET r == IF ~Truthy(result.url) THEN [extracted |-> None, calls |-> <<>>]
           ELSE FetchLoop(result, outcomes, 0, FALSE, [extracted |-> None, calls |-> <<>>])
  IN IF r.extracted # None /\ Truthy(r.extracted[1].error)
       THEN [extracted |-> None, calls |-> r.calls]
       ELSE r

\* one iteration of the for loop over payload.results
ExtractResult(result, outcomes) ==
  IF ~Truthy(result.url) THEN [extracted |-> None, calls |-> <<>>]
  ELSE FetchLoop(result, outcomes, 0, FALSE, [extracted |-> None, calls |-> <<>>])

\* a for loop that the first failed URL ends
ExtractBatchStopsAtFailure(results, fetches) ==
  LET all == [i \in 1..Len(results) |-> ExtractResult(results[i], fetches[i])]
      failed(i) == all[i].extracted # None /\ Truthy(all[i].extracted[1].error)
  IN [i \in 1..Len(results) |->
        IF \E j \in 1..(i - 1) : failed(j) THEN [extracted |-> None, calls |-> <<>>]
        ELSE all[i]]

\* the for loop over payload.results: what each iteration records and calls
ExtractBatch(results, fetches) ==
  [i \in 1..Len(results) |-> ExtractResult(results[i], fetches[i])]

ExtractAll(results, fetches) ==
  Flatten([i \in 1..Len(results) |-> ExtractBatch(results, fetches)[i].extracted])

FetchCalls(results, fetches) ==
  Flatten([i \in 1..Len(results) |-> ExtractBatch(results, fetches)[i].calls])

ContentExtractorRun(t, fetches, setOk) ==
  /\ Deliver(t, "content-extractor")
  /\ LET payload == Input(t, "content-extractor")
         traceId == payload.traceId
         extractedContents == ExtractAll(payload.results, fetches)
     IN /\ Len(fetches) = Len(payload.results)
        /\ IF ~setOk
             THEN \* state.set is outside any try: the handler rejects
                  Goto(traceId, "content-extractor", "rejected", Some("state.set failed"))
                  /\ UNCHANGED store
             ELSE /\ StateSet(StoreKey(traceId, Artifact("content-extractor")), extractedContents)
                  /\ Goto(traceId, "content-extractor", "emit", Some(extractedContents))
        /\ calls' = [calls EXCEPT ![traceId] = @ \o FetchCalls(payload.results, fetches)]
  /\ UNCHANGED <<emitted, issued, startResp, reportResp>>

ContentExtractorEmit(t, emitOk) ==
  /\ EmitSuccessor(t, "content-extractor",
                   [traceId |-> t, extractedContent |-> local[t]["content-extractor"][1]],
                   emitOk, FALSE)
  /\ UNCHANGED <<store, issued, startResp, reportResp, calls>>

(***************************************************************************)
(* question-brainstormer                                                   *)
(***************************************************************************)
\* the try/catch around JSON.parse(responseContent)
ParseQuestions(c) ==
  LET found ==
        IF c.kind # "json" THEN Parsed(FALSE, <<>>, "Unexpected token")
        ELSE IF c.json.type = "array" THEN Parsed(TRUE, c.json.items, "")
        ELSE IF HasArrayField(c.json, "questions")
          THEN Parsed(TRUE, Field(c.json, "questions").items, "")
        ELSE IF c.json.type = "object" /\ \E i \in 1..Len(c.json.values) : c.json.values[i].type = "array"
          THEN LET first == CHOOSE i \in 1..Len(c.json.values) :
                              /\ c.json.values[i].type = "array"
                              /\ \A j \in 1..(i - 1) : c.json.values[j].type # "array"
               IN Parsed(TRUE, c.json.values[first].items, "")
        ELSE Parsed(FALSE, <<>>, "Could not find a JSON array of questions in the response.")
      generatedQuestions == StringsOf(found.list)
  IN IF ~found.ok THEN Parsed(FALSE, <<>>, "Failed to parse OpenAI JSON response")
     ELSE IF generatedQuestions = <<>>
       THEN Parsed(FALSE, <<>>, "Failed to parse OpenAI JSON response: no questions found in the array.")
     ELSE Parsed(TRUE, generatedQuestions, "")

\* a filter that looks at the texts of an item only, not at its error
IsUsableDespiteError(item) == Truthy(item.content) \/ Truthy(item.excerpt)

\* the entries the loop over extractedContent puts into contextText
IsUsable(item) == ~Truthy(item.error) /\ (Truthy(item.content) \/ Truthy(item.excerpt))

ContextEntries(extractedContent) ==
  LET usable == SelectSeq(extractedContent, IsUsable)
  IN [i \in 1..Len(usable) |->
        [title |-> usable[i].title, source |-> usable[i].url,
         summary |-> IF Truthy(usable[i].excerpt) THEN usable[i].excerpt ELSE usable[i].content]]

\* the body of the try, from the state reads to the parse
\* a body that goes on with the topic alone when there is no extracted content
BrainstormQuestionsOnTopicAlone(seedTopic, extractedContent, c) ==
  IF seedTopic = None THEN Parsed(FALSE, <<>>, "Seed topic not found or invalid in state")
  ELSE IF c.kind = "throw" THEN Parsed(FALSE, <<>>, "Request timed out.")
  ELSE IF c.kind = "empty" THEN Parsed(FALSE, <<>>, "OpenAI response content was empty.")
  ELSE ParseQuestions(c)

BrainstormQuestions(seedTopic, extractedContent, c) ==
  IF seedTopic = None THEN Parsed(FALSE, <<>>, "Seed topic not found or invalid in state")
  ELSE IF extractedContent = None \/ extractedContent[1] = <<>>
    THEN Parsed(FALSE, <<>>, "Extracted content not found or empty in state")
  ELSE IF c.kind = "throw" THEN Parsed(FALSE, <<>>, "Request timed out.")
  ELSE IF c.kind = "empty" THEN Parsed(FALSE, <<>>, "OpenAI response content was empty.")
  ELSE ParseQuestions(c)

QuestionBrainstormerRun(t, hasKey, getOk, c, setOk) ==
  /\ Deliver(t, "question-brainstormer")
  /\ LET payload == Input(t, "question-brainstormer")
         traceId == payload.traceId
         seedTopic == store[StoreKey(traceId, "seed_topic")]
         extractedContent == store[StoreKey(traceId, "extracted_content")]
         result == BrainstormQuestions(seedTopic, extractedContent, c)
         requested == hasKey /\ getOk /\ seedTopic # None
                      /\ extractedContent # None /\ extractedContent[1] # <<>>
     IN /\ IF ~hasKey
             THEN Goto(traceId, "question-brainstormer", "error", Some("Missing OpenAI API Key"))
                  /\ UNCHANGED store
           ELSE IF ~getOk
             THEN Goto(traceId, "question-brainstormer", "error", Some("state.get failed"))
                  /\ UNCHANGED store
           ELSE IF ~result.ok
             THEN Goto(traceId, "question-brainstormer", "error", Some(result.error))
                  /\ UNCHANGED store
           ELSE IF ~setOk
             THEN Goto(traceId, "question-brainstormer", "error", Some("state.set failed"))
                  /\ UNCHANGED store
           ELSE /\ StateSet(StoreKey(traceId, Artifact("question-brainstormer")), result.list)
                /\ Goto(traceId, "question-brainstormer", "emit", Some(result.list))
        /\ calls' = [calls EXCEPT ![traceId] =
                       IF requested
                         THEN Append(@, Call("completion", "question-brainstormer",
                                             ContextEntries(extractedContent[1])))
                         ELSE @]
  /\ UNCHANGED <<emitted, issued, startResp, reportResp>>

QuestionBrainstormerEmit(t, emitOk) ==
  /\ EmitSuccessor(t, "question-brainstormer",
                   [traceId |-> t, questions |-> local[t]["question-brainstormer"][1]],
                   emitOk, TRUE)
  /\ UNCHANGED <<store, issued, startResp, reportResp, calls>>

\* the missing-key emit is awaited bare; the emit in the catch is itself in a try
QuestionBrainstormerEmitError(t, emitOk) ==
  /\ EmitWorkflowError(t, "question-brainstormer", emitOk,
                       local[t]["question-brainstormer"] # Some("Missing OpenAI API Key"))
  /\ UNCHANGED <<store, issued, startResp, reportResp, calls>>

(***************************************************************************)
(* question-judger                                                         *)
(* A criterion score is what JSON.parse found under `score`: a number      *)
(* (an integer here; 0 also stands for a missing criterion or a missing    *)
(* score, which are as falsy) or a string of decimal digits.  overallScore *)
(* is kept in hundredths, the unit toFixed(2) rounds to.                   *)
(***************************************************************************)
NoError == Undefined

Num(v) == [type |-> "number", value |-> v]
Str(v) == [type |-> "string", value |-> v]

\* !evaluationResult.novelty?.score
ScoreFalsy(score) == score.type = "number" /\ score.value = 0

RECURSIVE Pow10Above(_, _)
Pow10Above(v, p) == IF v < p THEN p ELSE Pow10Above(v, p * 10)

\* a + b of JavaScript: the sum of two numbers, else the concatenation of the
\* operands' decimal texts
Plus(a, b) ==
  IF a.type = "number" /\ b.type = "number" THEN Num(a.value + b.value)
  ELSE Str(a.value * Pow10Above(b.value, 10) + b.value)

EvaluatedQuestion(question, novelty, feasibility, impact, crossDisciplinary, overallScore, error) ==
  [question |-> question, novelty |-> novelty, feasibility |-> feasibility,
   impact |-> impact, crossDisciplinary |-> crossDisciplinary,
   overallScore |-> overallScore, error |-> error]

\* the completion of one evaluation request; question and error are the values
\* of keys of those names in the JSON object, when it has them
EvalCompletion(kind, n, f, i, c, question, error) ==
  [kind |-> kind, novelty |-> n, feasibility |-> f, impact |-> i, crossDisciplinary |-> c,
   question |-> question, error |-> error]

EvalThrows == EvalCompletion("throw", Num(0), Num(0), Num(0), Num(0), None, None)
EvalEmpty == EvalCompletion("empty", Num(0), Num(0), Num(0), Num(0), None, None)
EvalNotJson == EvalCompletion("text", Num(0), Num(0), Num(0), Num(0), None, None)
EvalJson(n, f, i, c) == EvalCompletion("json", Num(n), Num(f), Num(i), Num(c), None, None)

\* parseFloat(((n + f + i + c) / 4).toFixed(2)), in hundredths
OverallScore(r) ==
  (Plus(Plus(Plus(r.novelty, r.feasibility), r.impact), r.crossDisciplinary).value * 100) \div 4

\* the placeholder pushed by the catch of one question's evaluation
EvaluationError(question, errorMessage) ==
  EvaluatedQuestion(question, Num(0), Num(0), Num(0), Num(0), 0, errorMessage)

\* { question: question, ...evaluationResult, overallScore: ... }
Evaluation(question, r) ==
  EvaluatedQuestion(IF r.question # None THEN r.question[1] ELSE question,
                    r.novelty, r.feasibility, r.impact, r.crossDisciplinary,
                    OverallScore(r),
                    IF r.error # None THEN r.error[1] ELSE NoError)

\* the body of the loop over payload.questions
EvaluateQuestion(question, r) ==
  IF r.kind = "throw" THEN EvaluationError(question, "Request timed out.")
  ELSE IF r.kind = "empty" THEN EvaluationError(question, "OpenAI evaluation response content was empty.")
  ELSE IF r.kind = "text" THEN EvaluationError(question, "Failed to parse OpenAI JSON evaluation: Unexpected token")
  ELSE IF ScoreFalsy(r.novelty) \/ ScoreFalsy(r.feasibility)
          \/ ScoreFalsy(r.impact) \/ ScoreFalsy(r.crossDisciplinary)
    THEN EvaluationError(question,
           "Failed to parse OpenAI JSON evaluation: Parsed JSON is missing required evaluation fields or scores.")
  ELSE Evaluation(question, r)

EvaluateAll(questions, completions) ==
  [i \in 1..Len(questions) |-> EvaluateQuestion(questions[i], completions[i])]

QuestionJudgerRun(t, hasKey, getOk, completions, setOk) ==
  /\ Deliver(t, "question-judger")
  /\ LET payload == Input(t, "question-judger")
         evaluatedQuestions == EvaluateAll(payload.questions, completions)
     IN /\ Len(completions) = Len(payload.questions)
        /\ IF ~hasKey
             THEN Goto(payload.traceId, "question-judger", "error", Some("Missing OpenAI API Key"))
                  /\ UNCHANGED store
           ELSE IF ~getOk
             THEN Goto(payload.traceId, "question-judger", "error",
                       Some("Critical error in evaluation step: state.get failed"))
                  /\ UNCHANGED store
           ELSE IF ~setOk
             THEN Goto(payload.traceId, "question-judger", "error",
                       Some("Critical error in evaluation step: state.set failed"))
                  /\ UNCHANGED store
           ELSE /\ StateSet(StoreKey(payload.traceId, Artifact("question-judger")), evaluatedQuestions)
                /\ Goto(payload.traceId, "question-judger", "emit", Some(evaluatedQuestions))
        /\ calls' = [calls EXCEPT ![payload.traceId] =
                       IF hasKey /\ getOk
                         THEN @ \o [i \in 1..Len(payload.questions) |->
                                     Call("completion", "question-judger", payload.questions[i])]
                         ELSE @]
  /\ UNCHANGED <<emitted, issued, startResp, reportResp>>

QuestionJudgerEmit(t, emitOk) ==
  /\ EmitSuccessor(t, "question-judger",
                   [traceId |-> t, evaluatedQuestions |-> local[t]["question-judger"][1]],
                   emitOk, TRUE)
  /\ UNCHANGED <<store, issued, startResp, reportResp, calls>>

QuestionJudgerEmitError(t, emitOk) ==
  /\ EmitWorkflowError(t, "question-judger", emitOk, FALSE)
  /\ UNCHANGED <<store, issued, startResp, reportResp, calls>>

(***************************************************************************)
(* report-compiler                                                         *)
(***************************************************************************)
\* a filter that keeps every entry
KeepsEveryEntry(q) == TRUE

\* q => !q.error
HasNoError(q) == ~Truthy(q.error)

\* evaluatedQuestions.filter(q => !q.error)
FilterValid(evaluatedQuestions) == SelectSeq(evaluatedQuestions, HasNoError)

\* (a, b) => a.overallScore - b.overallScore
CompareFnAscending(a, b) == a.overallScore - b.overallScore

\* (a, b) => b.overallScore - a.overallScore
CompareFn(a, b) == b.overallScore - a.overallScore

\* a sort that puts an element before the elements it ties with
RECURSIVE InsertSortedUnstable(_, _)
InsertSortedUnstable(q, sorted) ==
  IF sorted = <<>> THEN <<q>>
  ELSE IF CompareFn(Head(sorted), q) < 0
    THEN <<Head(sorted)>> \o InsertSortedUnstable(q, Tail(sorted))
    ELSE <<q>> \o sorted

\* Array.prototype.sort is stable: an element goes after every element that
\* the comparator does not order after it
RECURSIVE InsertSorted(_, _)
InsertSorted(q, sorted) ==
  IF sorted = <<>> THEN <<q>>
  ELSE IF CompareFn(Head(sorted), q) <= 0
    THEN <<Head(sorted)>> \o InsertSorted(q, Tail(sorted))
    ELSE <<q>> \o sorted

RECURSIVE Sort(_)
Sort(list) ==
  IF list = <<>> THEN <<>>
  ELSE InsertSorted(list[Len(list)], Sort(SubSeq(list, 1, Len(list) - 1)))

\* a slice whose end index is inclusive
SliceInclusive(list, n) == SubSeq(list, 1, Min(n + 1, Len(list)))

\* validEvaluations.slice(0, TOP_N_QUESTIONS)
Slice(list, n) == SubSeq(list, 1, Min(n, Len(list)))

\* a selection that takes the first valid entries in arrival order
TopQuestionsUnsorted(evaluatedQuestions) == Slice(FilterValid(evaluatedQuestions), TOP_N_QUESTIONS)

TopQuestions(evaluatedQuestions) == Slice(Sort(FilterValid(evaluatedQuestions)), TOP_N_QUESTIONS)

\* a report that does not carry the topic read from the store
FinalReportWithoutTopic(traceId, seedTopic, evaluatedQuestions, now) ==
  LET topQuestions == TopQuestions(evaluatedQuestions) IN
  [traceId |-> traceId,
   seedTopic |-> "Unknown",
   timestamp |-> now,
   topQuestions |-> topQuestions,
   metadata |-> [totalQuestionsEvaluated |-> Len(evaluatedQuestions),
                 questionsInReport |-> Len(topQuestions)]]

FinalReport(traceId, seedTopic, evaluatedQuestions, now) ==
  LET topQuestions == TopQuestions(evaluatedQuestions) IN
  [traceId |-> traceId,
   seedTopic |-> IF seedTopic # None /\ Truthy(seedTopic[1]) THEN seedTopic[1] ELSE "Unknown",
   timestamp |-> now,
   topQuestions |-> topQuestions,
   metadata |-> [totalQuestionsEvaluated |-> Len(evaluatedQuestions),
                 questionsInReport |-> Len(topQuestions)]]

\* a compiler that treats an empty ranked list as a failure
CompileErrorOnEmpty(finalReport, getOk, setOk) ==
  IF ~getOk THEN Some("state.get failed")
  ELSE IF finalReport.topQuestions = <<>> THEN Some("No valid questions to report")
  ELSE IF ~setOk THEN Some("state.set failed")
  ELSE None

\* what the body of the try throws, if anything, before the emit: only a failed
\* state.get or state.set; an empty topQuestions is logged and compiled
CompileError(finalReport, getOk, setOk) ==
  IF ~getOk THEN Some("state.get failed")
  ELSE IF ~setOk THEN Some("state.set failed")
  ELSE None

ReportCompilerRun(t, getOk, setOk, now) ==
  /\ Deliver(t, "report-compiler")
  /\ LET payload == Input(t, "report-compiler")
         traceId == payload.traceId
         finalReport == FinalReport(traceId, store[StoreKey(traceId, "seed_topic")],
                                    payload.evaluatedQuestions, now)
         thrown == CompileError(finalReport, getOk, setOk)
     IN IF thrown # None
          THEN Goto(traceId, "report-compiler", "error", thrown)
               /\ UNCHANGED store
        ELSE /\ StateSet(StoreKey(traceId, Artifact("report-compiler")), finalReport)
             /\ Goto(traceId, "report-compiler", "emit", Some(finalReport))
  /\ UNCHANGED <<emitted, issued, startResp, reportResp, calls>>

ReportCompilerEmit(t, emitOk) ==
  /\ EmitSuccessor(t, "report-compiler",
                   [traceId |-> t, report |-> local[t]["report-compiler"][1]], emitOk, TRUE)
  /\ UNCHANGED <<store, issued, startResp, reportResp, calls>>

ReportCompilerEmitError(t, emitOk) ==
  /\ EmitWorkflowError(t, "report-compiler", emitOk, FALSE)
  /\ UNCHANGED <<store, issued, startResp, reportResp, calls>>

(***************************************************************************)
(* The pipeline: what the collaborators may answer in a run of Spec.       *)
(***************************************************************************)
QueryCompletions ==
  <<ChatThrows,
    ChatJson(JObject(<<"queries">>, <<JArray(<<JString("query A")>>)>>))>>

SearchOutcomes ==
  {SearchThrows, SearchReturns(<<>>), SearchReturns(<<SearchResult("https://a.example", "A")>>)}

FetchPlans ==
  {[n \in 1..(MAX_RETRIES + 1) |-> FetchOutcome("ok", Article("Page A", "text of A", Undefined))],
   [n \in 1..(MAX_RETRIES + 1) |-> FetchOutcome("timeout", NoArticle)]}

QuestionCompletions ==
  <<ChatEmpty,
    ChatJson(JArray(<<JString("Q1"), JString("Q2")>>))>>

EvalCompletions == {EvalThrows, EvalJson(1, 1, 1, 1)}

\* the seed topics of the start requests of Spec
StartTopics == {"quantum computing"}

\* one answer per item of a list
Answers(S, list) == [1..Len(list) -> S]

Pending(t, stage) == stage \in inbox[t]

Next ==
  \/ \E topic \in StartTopics, setOk \in BOOLEAN :
       Len(issued) < MaxStarts /\ ResearchStarterRun(topic, setOk)
  \/ \E t \in TraceIds, emitOk \in BOOLEAN : ResearchStarterEmit(t, emitOk)
  \/ \E t \in TraceIds, hasKey, setOk \in BOOLEAN, i \in 1..Len(QueryCompletions) :
       QueryGeneratorRun(t, hasKey, QueryCompletions[i], setOk)
  \/ \E t \in TraceIds, emitOk \in BOOLEAN : QueryGeneratorEmit(t, emitOk)
  \/ \E t \in TraceIds, emitOk \in BOOLEAN : QueryGeneratorEmitError(t, emitOk)
  \/ \E t \in TraceIds, hasKey, setOk \in BOOLEAN :
       /\ Pending(t, "exa-searcher")
       /\ \E outcomes \in Answers(SearchOutcomes, Input(t, "exa-searcher").queries) :
            ExaSearcherRun(t, hasKey, outcomes, setOk)
  \/ \E t \in TraceIds, emitOk \in BOOLEAN : ExaSearcherEmit(t, emitOk)
  \/ \E t \in TraceIds, emitOk \in BOOLEAN : ExaSearcherEmitError(t, emitOk)
  \/ \E t \in TraceIds, setOk \in BOOLEAN :
       /\ Pending(t, "content-extractor")
       /\ \E fetches \in Answers(FetchPlans, Input(t, "content-extractor").results) :
            ContentExtractorRun(t, fetches, setOk)
  \/ \E t \in TraceIds, emitOk \in BOOLEAN : ContentExtractorEmit(t, emitOk)
  \/ \E t \in TraceIds, hasKey, getOk, setOk \in BOOLEAN, i \in 1..Len(QuestionCompletions) :
       QuestionBrainstormerRun(t, hasKey, getOk, QuestionCompletions[i], setOk)
  \/ \E t \in TraceIds, emitOk \in BOOLEAN : QuestionBrainstormerEmit(t, emitOk)
  \/ \E t \in TraceIds, emitOk \in BOOLEAN : QuestionBrainstormerEmitError(t, emitOk)
  \/ \E t \in TraceIds, hasKey, getOk, setOk \in BOOLEAN :
       /\ Pending(t, "question-judger")
       /\ \E completions \in Answers(EvalCompletions, Input(t, "question-judger").questions) :
            QuestionJudgerRun(t, hasKey, getOk, completions, setOk)
  \/ \E t \in TraceIds, emitOk \in BOOLEAN : QuestionJudgerEmit(t, emitOk)
  \/ \E t \in TraceIds, emitOk \in BOOLEAN : QuestionJudgerEmitError(t, emitOk)
  \/ \E t \in TraceIds, getOk, setOk \in BOOLEAN, now \in Timestamps :
       ReportCompilerRun(t, getOk, setOk, now)
  \/ \E t \in TraceIds, emitOk \in BOOLEAN : ReportCompilerEmit(t, emitOk)
  \/ \E t \in TraceIds, emitOk \in BOOLEAN : ReportCompilerEmitError(t, emitOk)

Spec == Init /\ [][Next]_vars

\* Spec under fair scheduling of the stage invocations: the bus delivers every
\* emitted event to its subscriber and a handler that has started runs on to
\* its emit, so a step other than a new start request is taken when one stays
\* possible; no client is obliged to start a trace.
StageStep == Next /\ issued' = issued
SpecFair == Init /\ [][Next]_vars /\ WF_vars(StageStep)

(***************************************************************************)
(* Several traces side by side: MaxTraces start requests, every            *)
(* collaborator of the pipeline answering, and a client polling the report *)
(* endpoint with any identifier, issued or not.                            *)
(***************************************************************************)
AnsweredQueries == QueryCompletions[2]
AnsweredSearch == SearchReturns(<<SearchResult("https://a.example", "A")>>)
AnsweredFetch == [n \in 1..(MAX_RETRIES + 1) |-> FetchOutcome("ok", Article("Page A", "text of A", Undefined))]
AnsweredQuestions == QuestionCompletions[2]
AnsweredEval == EvalJson(1, 1, 1, 1)
PollTime == "2025-05-01T10:00:00.000Z"

NextTraces ==
  \/ \E topic \in Topics, setOk \in BOOLEAN :
       Len(issued) < MaxTraces /\ ResearchStarterRun(topic, setOk)
  \/ \E t \in TraceIds, emitOk \in BOOLEAN : ResearchStarterEmit(t, emitOk)
  \/ \E t \in TraceIds : QueryGeneratorRun(t, TRUE, AnsweredQueries, TRUE)
  \/ \E t \in TraceIds : QueryGeneratorEmit(t, TRUE)
  \/ \E t \in TraceIds :
       /\ Pending(t, "exa-searcher")
       /\ ExaSearcherRun(t, TRUE, [i \in 1..Len(Input(t, "exa-searcher").queries) |-> AnsweredSearch], TRUE)
  \/ \E t \in TraceIds : ExaSearcherEmit(t, TRUE)
  \/ \E t \in TraceIds :
       /\ Pending(t, "content-extractor")
       /\ ContentExtractorRun(t, [i \in 1..Len(Input(t, "content-extractor").results) |-> AnsweredFetch], TRUE)
  \/ \E t \in TraceIds : ContentExtractorEmit(t, TRUE)
  \/ \E t \in TraceIds : QuestionBrainstormerRun(t, TRUE, TRUE, AnsweredQuestions, TRUE)
  \/ \E t \in TraceIds : QuestionBrainstormerEmit(t, TRUE)
  \/ \E t \in TraceIds :
       /\ Pending(t, "question-judger")
       /\ QuestionJudgerRun(t, TRUE, TRUE,
                            [i \in 1..Len(Input(t, "question-judger").questions) |-> AnsweredEval], TRUE)
  \/ \E t \in TraceIds : QuestionJudgerEmit(t, TRUE)
  \/ \E t \in TraceIds : ReportCompilerRun(t, TRUE, TRUE, PollTime)
  \/ \E t \in TraceIds : ReportCompilerEmit(t, TRUE)
  \/ \E traceId \in QueryParams, getOk \in BOOLEAN : ReportRetrieverHandler(traceId, getOk)
  \/ ClientReadsResponse

SpecTraces == Init /\ [][NextTraces]_vars

(***************************************************************************)
(* The report-compiler on its own: one trace whose upstream stages have    *)
(* all succeeded and whose questions.judged event is about to be           *)
(* delivered, for every evaluated-question list of up to MaxEval entries;  *)
(* the event may be delivered again, up to MaxCompiles invocations.        *)
(***************************************************************************)
QuestionTexts == <<"Q1", "Q2", "Q3", "Q4", "Q5", "Q6", "Q7", "Q8", "Q9">>

ReportEvalCompletions == {EvalThrows, EvalJson(1, 1, 1, 2), EvalJson(2, 2, 2, 2)}

\* the state of trace t once the question-judger has emitted questions.judged,
\* every stage before it having succeeded at its first invocation
JudgedState(t, topic, questions, completions) ==
  LET queries == ParseQueries(AnsweredQueries).list
      results == AllResults(queries, [i \in 1..Len(queries) |-> AnsweredSearch])
      errors == SearchErrors(queries, [i \in 1..Len(queries) |-> AnsweredSearch])
      fetches == [i \in 1..Len(results) |-> AnsweredFetch]
      extracted == ExtractAll(results, fetches)
      evaluated == EvaluateAll(questions, completions)
      artifacts == [n \in ArtifactNames |->
                      CASE n = "seed_topic" -> Some(topic)
                        [] n = "generated_queries" -> Some(queries)
                        [] n = "exa_search_results" -> Some(results)
                        [] n = "extracted_content" -> Some(extracted)
                        [] n = "generated_questions" -> Some(questions)
                        [] n = "evaluated_questions" -> Some(evaluated)
                        [] n = "final_report" -> None]
  IN /\ store = [k \in StoreKeys |-> IF k[1] = t THEN artifacts[k[2]] ELSE None]
     /\ emitted = [u \in TraceIds |->
          IF u # t THEN <<>>
          ELSE << Event("topic.seeded", [traceId |-> t, topic |-> topic]),
                  Event("queries.generated", [traceId |-> t, queries |-> queries]),
                  Event("search_results.obtained",
                        [traceId |-> t, results |-> results, errors |-> errors]),
                  Event("content.extracted", [traceId |-> t, extractedContent |-> extracted]),
                  Event("questions.generated", [traceId |-> t, questions |-> questions]),
                  Event("questions.judged", [traceId |-> t, evaluatedQuestions |-> evaluated]) >>]
     /\ inbox = [u \in TraceIds |-> IF u = t THEN {"report-compiler"} ELSE {}]
     /\ pc = [u \in TraceIds |-> [s \in Stages |->
                IF u = t /\ s # "report-compiler" THEN "done" ELSE "idle"]]
     /\ local = [u \in TraceIds |-> [s \in Stages |-> None]]
     /\ issued = [i \in 1..t |-> i]
     /\ startResp = [u \in TraceIds |-> IF u = t THEN <<"200">> ELSE <<>>]
     /\ reportResp = None
     /\ calls = [u \in TraceIds |->
          IF u # t THEN <<>>
          ELSE <<Call("completion", "query-generator", topic)>>
               \o [i \in 1..Len(queries) |-> Call("search", "exa-searcher", queries[i])]
               \o FetchCalls(results, fetches)
               \o <<Call("completion", "question-brainstormer", ContextEntries(extracted))>>
               \o [i \in 1..Len(questions) |-> Call("completion", "question-judger", questions[i])]]

InitCompiler ==
  \E n \in 1..MaxEval : \E completions \in [1..n -> ReportEvalCompletions] :
    JudgedState(1, "quantum computing", SubSeq(QuestionTexts, 1, n), completions)

\* the clock at the successive invocations of the report-compiler
CompileTimes ==
  <<"2025-05-01T10:00:00.000Z", "2025-05-01T10:00:01.000Z",
    "2025-05-01T10:00:02.000Z", "2025-05-01T10:00:03.000Z">>

\* the number of reports the report-compiler has announced for the trace
Compiles(t) == Cardinality({i \in 1..Len(emitted[t]) : emitted[t][i].topic = "report.generated"})

\* the questions.judged event of the trace is delivered to the report-compiler again
Reinvoke(t) ==
  /\ "questions.judged" \in EmittedTopics(t)
  /\ pc[t]["report-compiler"] = "done"
  /\ "report-compiler" \notin inbox[t]
  /\ Compiles(t) < MaxCompiles
  /\ inbox' = [inbox EXCEPT ![t] = @ \cup {"report-compiler"}]
  /\ UNCHANGED <<store, emitted, pc, local, issued, startResp, reportResp, calls>>

NextCompiler ==
  \/ \E t \in TraceIds : ReportCompilerRun(t, TRUE, TRUE, CompileTimes[Compiles(t) + 1])
  \/ \E t \in TraceIds : ReportCompilerEmit(t, TRUE)
  \/ \E t \in TraceIds : Reinvoke(t)

SpecCompiler == InitCompiler /\ [][NextCompiler]_vars

(***************************************************************************)
(* The question-judger on its own: one trace whose question-brainstormer   *)
(* has emitted questions.generated with 1..MaxQuestions questions, every   *)
(* completion the evaluation requests may meet, and the judger's store and *)
(* bus failing or not.                                                     *)
(***************************************************************************)
JudgerCompletions ==
  {EvalThrows, EvalEmpty, EvalNotJson,
   EvalJson(1, 2, 2, 2),
   EvalJson(0, 2, 2, 2),
   EvalCompletion("json", Str(8), Str(7), Num(6), Num(5), None, None),
   EvalCompletion("json", Num(3), Num(3), Num(3), Num(3), Some("What else?"), None),
   EvalCompletion("json", Num(4), Num(4), Num(4), Num(4), None, Some("low confidence"))}

\* the state of trace t once the question-brainstormer has emitted
\* questions.generated, every stage before it having succeeded at its first invocation
BrainstormedState(t, topic, questions) ==
  LET queries == ParseQueries(AnsweredQueries).list
      results == AllResults(queries, [i \in 1..Len(queries) |-> AnsweredSearch])
      errors == SearchErrors(queries, [i \in 1..Len(queries) |-> AnsweredSearch])
      fetches == [i \in 1..Len(results) |-> AnsweredFetch]
      extracted == ExtractAll(results, fetches)
      artifacts == [n \in ArtifactNames |->
                      CASE n = "seed_topic" -> Some(topic)
                        [] n = "generated_queries" -> Some(queries)
                        [] n = "exa_search_results" -> Some(results)
                        [] n = "extracted_content" -> Some(extracted)
                        [] n = "generated_questions" -> Some(questions)
                        [] n = "evaluated_questions" -> None
                        [] n = "final_report" -> None]
  IN /\ store = [k \in StoreKeys |-> IF k[1] = t THEN artifacts[k[2]] ELSE None]
     /\ emitted = [u \in TraceIds |->
          IF u # t THEN <<>>
          ELSE << Event("topic.seeded", [traceId |-> t, topic |-> topic]),
                  Event("queries.generated", [traceId |-> t, queries |-> queries]),
                  Event("search_results.obtained",
                        [traceId |-> t, results |-> results, errors |-> errors]),
                  Event("content.extracted", [traceId |-> t, extractedContent |-> extracted]),
                  Event("questions.generated", [traceId |-> t, questions |-> questions]) >>]
     /\ inbox = [u \in TraceIds |-> IF u = t THEN {"question-judger"} ELSE {}]
     /\ pc = [u \in TraceIds |-> [s \in Stages |->
                IF u = t /\ s \notin {"question-judger", "report-compiler"} THEN "done" ELSE "idle"]]
     /\ local = [u \in TraceIds |-> [s \in Stages |-> None]]
     /\ issued = [i \in 1..t |-> i]
     /\ startResp = [u \in TraceIds |-> IF u = t THEN <<"200">> ELSE <<>>]
     /\ reportResp = None
     /\ calls = [u \in TraceIds |->
          IF u # t THEN <<>>
          ELSE <<Call("completion", "query-generator", topic)>>
               \o [i \in 1..Len(queries) |-> Call("search", "exa-searcher", queries[i])]
               \o FetchCalls(results, fetches)
               \o <<Call("completion", "question-brainstormer", ContextEntries(extracted))>>]

InitJudger ==
  \E n \in 1..MaxQuestions :
    BrainstormedState(1, "quantum computing", SubSeq(QuestionTexts, 1, n))

NextJudger ==
  \/ \E t \in TraceIds, hasKey, getOk, setOk \in BOOLEAN :
       /\ Pending(t, "question-judger")
       /\ \E completions \in Answers(JudgerCompletions, Input(t, "question-judger").questions) :
            QuestionJudgerRun(t, hasKey, getOk, completions, setOk)
  \/ \E t \in TraceIds, emitOk \in BOOLEAN : QuestionJudgerEmit(t, emitOk)
  \/ \E t \in TraceIds, emitOk \in BOOLEAN : QuestionJudgerEmitError(t, emitOk)

SpecJudger == InitJudger /\ [][NextJudger]_vars

(***************************************************************************)
(* The content-extractor on its own: one trace whose exa-searcher has      *)
(* emitted search_results.obtained with 1..MaxResults results, one of them *)
(* possibly without a URL, every pattern of fetch outcomes per URL, and    *)
(* the extractor's store and bus failing or not.                           *)
(***************************************************************************)
ResultPool ==
  {SearchResult("https://a.example", "A"), SearchResult("https://b.example", "B"),
   SearchResult(Undefined, "C")}

Batches == UNION {[1..n -> ResultPool] : n \in 1..MaxResults}

OkArticle == FetchOutcome("ok", Article("Page", "text of the page", Undefined))

ExtractorFetchPlans ==
  {<<OkArticle, OkArticle, OkArticle>>,
   <<FetchOutcome("timeout", NoArticle), FetchOutcome("network_error", NoArticle),
     FetchOutcome("ok", Article("", " \n ", Undefined))>>,
   <<FetchOutcome("http_error", NoArticle), FetchOutcome("http_error", NoArticle),
     FetchOutcome("http_error", NoArticle)>>,
   <<FetchOutcome("non_html", NoArticle), OkArticle, OkArticle>>,
   <<FetchOutcome("no_content", NoArticle), FetchOutcome("timeout", NoArticle),
     FetchOutcome("network_error", NoArticle)>>}

\* what one attempt may meet, and every pattern of three attempts
FetchOutcomes ==
  {OkArticle, FetchOutcome("ok", Article("", " \n ", Undefined))}
    \cup {FetchOutcome(kind, NoArticle) : kind \in FetchKinds \ {"ok"}}

AllFetchPlans == [1..(MAX_RETRIES + 1) -> FetchOutcomes]

\* the patterns of fetch outcomes a batch is run against: every pattern for a
\* batch of one result, the patterns of ExtractorFetchPlans per result otherwise
FetchesFor(results) ==
  IF Len(results) = 1 THEN [1..1 -> AllFetchPlans] ELSE Answers(ExtractorFetchPlans, results)

\* the state of trace t once the exa-searcher has emitted search_results.obtained
\* with `results`, the first query having returned them all
SearchedState(t, topic, results) ==
  LET queries == ParseQueries(AnsweredQueries).list
      artifacts == [n \in ArtifactNames |->
                      CASE n = "seed_topic" -> Some(topic)
                        [] n = "generated_queries" -> Some(queries)
                        [] n = "exa_search_results" -> Some(results)
                        [] OTHER -> None]
  IN /\ store = [k \in StoreKeys |-> IF k[1] = t THEN artifacts[k[2]] ELSE None]
     /\ emitted = [u \in TraceIds |->
          IF u # t THEN <<>>
          ELSE << Event("topic.seeded", [traceId |-> t, topic |-> topic]),
                  Event("queries.generated", [traceId |-> t, queries |-> queries]),
                  Event("search_results.obtained",
                        [traceId |-> t, results |-> results, errors |-> <<>>]) >>]
     /\ inbox = [u \in TraceIds |-> IF u = t THEN {"content-extractor"} ELSE {}]
     /\ pc = [u \in TraceIds |-> [s \in Stages |->
                IF u = t /\ s \in {"research-starter", "query-generator", "exa-searcher"}
                  THEN "done" ELSE "idle"]]
     /\ local = [u \in TraceIds |-> [s \in Stages |-> None]]
     /\ issued = [i \in 1..t |-> i]
     /\ startResp = [u \in TraceIds |-> IF u = t THEN <<"200">> ELSE <<>>]
     /\ reportResp = None
     /\ calls = [u \in TraceIds |->
          IF u # t THEN <<>>
          ELSE <<Call("completion", "query-generator", topic)>>
               \o [i \in 1..Len(queries) |-> Call("search", "exa-searcher", queries[i])]]

InitExtractor == \E results \in Batches : SearchedState(1, "quantum computing", results)

NextExtractor ==
  \/ \E t \in TraceIds, setOk \in BOOLEAN :
       /\ Pending(t, "content-extractor")
       /\ \E fetches \in FetchesFor(Input(t, "content-extractor").results) :
            ContentExtractorRun(t, fetches, setOk)
  \/ \E t \in TraceIds, emitOk \in BOOLEAN : ContentExtractorEmit(t, emitOk)

SpecExtractor == InitExtractor /\ [][NextExtractor]_vars

(***************************************************************************)
(* The query-generator on its own: one trace whose start endpoint has      *)
(* emitted topic.seeded, every shape of completion the parse may meet, and *)
(* the credentials, the store and the bus failing or not.                  *)
(***************************************************************************)
WideQueryCompletions ==
  {ChatThrows, ChatEmpty,
   ChatText(<<>>),
   ChatText(<<"query A", "query B">>),
   ChatJson(JArray(<<JString("query A"), JNumber, JString("query B")>>)),
   ChatJson(JArray(<<JNumber>>)),
   ChatJson(JArray(<<>>)),
   ChatJson(JObject(<<"queries">>, <<JArray(<<JString("query A")>>)>>)),
   ChatJson(JObject(<<"queries">>, <<JArray(<<JNumber, JNumber>>)>>)),
   ChatJson(JObject(<<"queries">>, <<JString("query A")>>)),
   ChatJson(JObject(<<"searches">>, <<JArray(<<JString("query A")>>)>>)),
   ChatJson(JObject(<<>>, <<>>)),
   ChatJson(JNumber)}

\* the state of trace t once the start endpoint has emitted topic.seeded
SeededState(t, topic) ==
  /\ store = [k \in StoreKeys |-> IF k = StoreKey(t, "seed_topic") THEN Some(topic) ELSE None]
  /\ emitted = [u \in TraceIds |->
       IF u # t THEN <<>> ELSE <<Event("topic.seeded", [traceId |-> t, topic |-> topic])>>]
  /\ inbox = [u \in TraceIds |-> IF u = t THEN {"query-generator"} ELSE {}]
  /\ pc = [u \in TraceIds |-> [s \in Stages |->
             IF u = t /\ s = "research-starter" THEN "done" ELSE "idle"]]
  /\ local = [u \in TraceIds |-> [s \in Stages |-> None]]
  /\ issued = [i \in 1..t |-> i]
  /\ startResp = [u \in TraceIds |-> IF u = t THEN <<"200">> ELSE <<>>]
  /\ reportResp = None
  /\ calls = [u \in TraceIds |-> <<>>]

InitQueries == \E t \in TraceIds, topic \in Topics : SeededState(t, topic)

NextQueries ==
  \/ \E t \in TraceIds, hasKey, setOk \in BOOLEAN, c \in WideQueryCompletions :
       QueryGeneratorRun(t, hasKey, c, setOk)
  \/ \E t \in TraceIds, emitOk \in BOOLEAN : QueryGeneratorEmit(t, emitOk)
  \/ \E t \in TraceIds, emitOk \in BOOLEAN : QueryGeneratorEmitError(t, emitOk)

SpecQueries == InitQueries /\ [][NextQueries]_vars

(***************************************************************************)
(* One URL of the content-extractor, await by await: the timer of every    *)
(* attempt (setTimeout at line 72, clearTimeout at 86 and 120), the fetch, *)
(* the read of the response body and the wait before the next attempt.     *)
(* The handler's variables are kept in local[t]["content-extractor"]:      *)
(* attempt, success, extracted, the place `at` where the handler is        *)
(* suspended, and the state of the timer of each attempt made.             *)
(***************************************************************************)
FETCH_TIMEOUT == 15000

Frame(attempt, success, extracted, at, timers) ==
  [attempt |-> attempt, success |-> success, extracted |-> extracted, at |-> at,
   timers |-> timers]

Running(t) == pc[t]["content-extractor"] = "running"
FrameOf(t) == local[t]["content-extractor"][1]
Resume(t, frame) == local' = [local EXCEPT ![t]["content-extractor"] = Some(frame)]

\* clearTimeout(timeoutId): a timer that has fired stays fired
ClearTimeout(timers, n) ==
  [timers EXCEPT ![n] = IF @ = "armed" THEN "cleared" ELSE @]

\* the catch of the attempt: clear the timer, record the error, wait if another
\* attempt is allowed
Caught(t, frame, errorMessage) ==
  LET result == Input(t, "content-extractor").results[1]
      waits == frame.attempt <= MAX_RETRIES
  IN /\ Resume(t, [frame EXCEPT
                     !.timers = ClearTimeout(frame.timers, frame.attempt),
                     !.extracted = Some(ExtractedContent(result.url, result.title, "",
                                                         Undefined, errorMessage)),
                     !.at = IF waits THEN "delay" ELSE "loop"])
     /\ calls' = [calls EXCEPT ![t] =
                    IF waits THEN Append(@, Call("delay", "content-extractor", RETRY_DELAY))
                    ELSE @]

\* the handler is invoked and reaches the while loop of its one URL
ExtractorStarts(t) ==
  /\ Deliver(t, "content-extractor")
  /\ pc' = [pc EXCEPT ![t]["content-extractor"] = "running"]
  /\ Resume(t, Frame(0, FALSE, None, "loop", <<>>))
  /\ UNCHANGED <<store, emitted, issued, startResp, reportResp, calls>>

\* the while condition holds: attempt++, the timer is set, the fetch is sent
AttemptStarts(t) ==
  /\ Running(t) /\ FrameOf(t).at = "loop"
  /\ FrameOf(t).attempt < MAX_RETRIES + 1 /\ ~FrameOf(t).success
  /\ Resume(t, [FrameOf(t) EXCEPT !.attempt = @ + 1, !.at = "fetch",
                                  !.timers = Append(@, "armed")])
  /\ calls' = [calls EXCEPT ![t] =
                 Append(@, Call("fetch", "content-extractor",
                                Input(t, "content-extractor").results[1].url))]
  /\ UNCHANGED <<store, emitted, inbox, pc, issued, startResp, reportResp>>

\* the timer of an attempt fires: controller.abort(); the fetch it guards, if
\* still awaited, rejects with an AbortError
TimerFires(t) ==
  /\ Running(t)
  /\ \E n \in 1..Len(FrameOf(t).timers) :
       /\ FrameOf(t).timers[n] = "armed"
       /\ LET frame == [FrameOf(t) EXCEPT !.timers[n] = "fired"]
          IN IF n = frame.attempt /\ frame.at = "fetch"
               THEN Caught(t, frame, "Fetch timed out after 15s")
               ELSE Resume(t, frame) /\ UNCHANGED calls
  /\ UNCHANGED <<store, emitted, inbox, pc, issued, startResp, reportResp>>

\* the awaited fetch settles: it rejects, or resolves with the response headers,
\* and then the timer is cleared
FetchSettles(t, kind) ==
  /\ Running(t) /\ FrameOf(t).at = "fetch"
  /\ LET frame == FrameOf(t)
         cleared == [frame EXCEPT !.timers = ClearTimeout(frame.timers, frame.attempt)]
         result == Input(t, "content-extractor").results[1]
     IN CASE kind = "network_error" -> Caught(t, frame, FetchErrorMessage(kind))
          [] kind = "http_error" -> Caught(t, cleared, FetchErrorMessage(kind))
          [] kind = "non_html" ->
               /\ Resume(t, [cleared EXCEPT
                               !.extracted = Some(ExtractedContent(result.url, result.title, "",
                                                    Undefined, "Skipped non-HTML content type")),
                               !.success = TRUE, !.at = "loop"])
               /\ UNCHANGED calls
          [] kind = "html" -> Resume(t, [cleared EXCEPT !.at = "text"]) /\ UNCHANGED calls
  /\ UNCHANGED <<store, emitted, inbox, pc, issued, startResp, reportResp>>

\* the awaited response.text() resolves and Readability parses the page
BodyArrives(t, article) ==
  /\ Running(t) /\ FrameOf(t).at = "text"
  /\ LET frame == FrameOf(t)
         result == Input(t, "content-extractor").results[1]
     IN IF article.textContent # ""
          THEN /\ Resume(t, [frame EXCEPT
                               !.extracted = Some(ExtractedContent(result.url,
                                   IF Truthy(article.title) THEN article.title ELSE result.title,
                                   Trim(article.textContent), article.excerpt, Undefined)),
                               !.success = TRUE, !.at = "loop"])
               /\ UNCHANGED calls
          ELSE Caught(t, frame, FetchErrorMessage("no_content"))
  /\ UNCHANGED <<store, emitted, inbox, pc, issued, startResp, reportResp>>

\* the awaited delay(RETRY_DELAY) resolves
DelayEnds(t) ==
  /\ Running(t) /\ FrameOf(t).at = "delay"
  /\ Resume(t, [FrameOf(t) EXCEPT !.at = "loop"])
  /\ UNCHANGED <<store, emitted, inbox, pc, issued, startResp, reportResp, calls>>

\* the while condition fails: the entry is pushed, stored, and the handler goes
\* to its emit
LoopEnds(t, setOk) ==
  /\ Running(t) /\ FrameOf(t).at = "loop"
  /\ ~(FrameOf(t).attempt < MAX_RETRIES + 1 /\ ~FrameOf(t).success)
  /\ IF ~setOk
       THEN Goto(t, "content-extractor", "rejected", Some("state.set failed"))
            /\ UNCHANGED store
       ELSE /\ StateSet(StoreKey(t, Artifact("content-extractor")), FrameOf(t).extracted)
            /\ Goto(t, "content-extractor", "emit", Some(FrameOf(t).extracted))
  /\ UNCHANGED <<emitted, inbox, issued, startResp, reportResp, calls>>

InitAttempts ==
  \E t \in TraceIds, topic \in Topics :
    SearchedState(t, topic, <<SearchResult("https://a.example", "A")>>)

NextAttempts ==
  \/ \E t \in TraceIds : ExtractorStarts(t)
  \/ \E t \in TraceIds : AttemptStarts(t)
  \/ \E t \in TraceIds : TimerFires(t)
  \/ \E t \in TraceIds, kind \in {"network_error", "http_error", "non_html", "html"} :
       FetchSettles(t, kind)
  \/ \E t \in TraceIds, article \in {OkArticle.article, NoArticle} : BodyArrives(t, article)
  \/ \E t \in TraceIds : DelayEnds(t)
  \/ \E t \in TraceIds, setOk \in BOOLEAN : LoopEnds(t, setOk)
  \/ \E t \in TraceIds, emitOk \in BOOLEAN : ContentExtractorEmit(t, emitOk)

SpecAttempts == InitAttempts /\ [][NextAttempts]_vars

(***************************************************************************)
(* Properties.                                                             *)
(***************************************************************************)
EventStages == Stages \ {"research-starter"}

\* the stored final report of a trace and the list it was compiled from
Report(t) == store[StoreKey(t, "final_report")][1]
HasReport(t) == store[StoreKey(t, "final_report")] # None
Judged(t) == Payload(t, "questions.judged").evaluatedQuestions
Flagged(q) == q.error \notin {"undefined", ""}
Unflagged(list) == {i \in 1..Len(list) : ~Flagged(list[i])}
ErrorsOf(t, stage) ==
  {i \in 1..Len(emitted[t]) :
     emitted[t][i].topic = "workflow.error" /\ emitted[t][i].data.step = stage}

\* C1: persist-before-emit. For every stage and every trace, the successor
\* event of the stage has been emitted only if the artifact the stage writes
\* for the trace is in the store, and the stage is about to emit only if it is.
C1_PersistBeforeEmit ==
  \A t \in TraceIds : \A s \in EventStages :
    (Emits(s) \in EmittedTopics(t) \/ pc[t][s] = "emit")
      => store[StoreKey(t, Artifact(s))] # None

\* a trace every stage of which has stored its artifact and emitted its event
C1_Witness ==
  \E t \in TraceIds : \A s \in EventStages :
    Emits(s) \in EmittedTopics(t) /\ store[StoreKey(t, Artifact(s))] # None

Chain ==
  <<"topic.seeded", "queries.generated", "search_results.obtained", "content.extracted",
    "questions.generated", "questions.judged", "report.generated">>

ChainIndex(topic) == CHOOSE k \in 1..Len(Chain) : Chain[k] = topic

\* C2: per-trace event order. The chain events of a trace occur in the chain
\* order; an event of the chain is emitted for a trace only after its
\* predecessor was emitted for the trace; a final report is stored for a trace
\* only after questions.judged was emitted for it.
C2_EventOrder ==
  \A t \in TraceIds :
    /\ \A i \in 1..Len(emitted[t]) :
         LET topic == emitted[t][i].topic IN
           topic \in Range(Chain) =>
             /\ ChainIndex(topic) > 1 =>
                  \E j \in 1..(i - 1) : emitted[t][j].topic = Chain[ChainIndex(topic) - 1]
             /\ \A j \in 1..(i - 1) :
                  emitted[t][j].topic \in Range(Chain) =>
                    ChainIndex(emitted[t][j].topic) <= ChainIndex(topic)
    /\ HasReport(t) => "questions.judged" \in EmittedTopics(t)

\* a trace that has emitted the whole chain
C2_Witness ==
  \E t \in TraceIds :
    /\ Len(emitted[t]) = Len(Chain)
    /\ \A i \in 1..Len(Chain) : emitted[t][i].topic = Chain[i]
    /\ HasReport(t)

\* the report endpoint answers a request for the identifier in this step
ReportAnswered(id) ==
  reportResp = None /\ reportResp' # None /\ reportResp'[1].traceId = id

\* C3 as stated: for a non-empty identifier the endpoint answers 200 with the
\* stored report exactly when the final report is in the store and 404 when
\* it is not, so never 500 for an identifier that was never issued.
C3_AsStated ==
  [][\A id \in TraceIds :
       ReportAnswered(id) =>
         LET stored == store[StoreKey(id, "final_report")] IN
           /\ (reportResp'[1].status = 200) <=> (stored # None)
           /\ stored # None => reportResp'[1].body = stored
           /\ stored = None => reportResp'[1].status = 404]_vars

\* C3, amended: when the read of the store succeeds, the endpoint answers 200
\* with the stored report exactly when the final report is in the store and
\* 404 when it is not (run in progress, identifier never issued); it answers
\* 500 exactly when the read of the store fails, whatever the identifier.
C3_ReportEndpoint ==
  [][\A id \in TraceIds :
       ReportAnswered(id) =>
         LET stored == store[StoreKey(id, "final_report")]
             resp == reportResp'[1]
         IN /\ (resp.status = 500) <=> resp.getThrew
            /\ ~resp.getThrew =>
                 /\ (resp.status = 200) <=> (stored # None)
                 /\ stored # None => resp.body = stored
                 /\ stored = None => resp.status = 404]_vars

\* the endpoint has answered 500 for an identifier that was never issued
C3_Witness ==
  /\ reportResp # None
  /\ reportResp[1].traceId \in TraceIds \ Range(issued)
  /\ reportResp[1].status = 500

C5_UniqueTraceIds ==
  /\ [](/\ \A i, j \in 1..Len(issued) : i # j => issued[i] # issued[j]
        /\ \A t \in TraceIds : Len(startResp[t]) <= 1)
  /\ [][\A t \in TraceIds :
          store[StoreKey(t, "seed_topic")] # None =>
            store'[StoreKey(t, "seed_topic")] = store[StoreKey(t, "seed_topic")]]_vars

\* two start requests answered 200 with two identifiers, for two topics
C5_Witness ==
  \E t, u \in TraceIds :
    /\ t # u
    /\ startResp[t] = <<"200">> /\ startResp[u] = <<"200">>
    /\ store[StoreKey(t, "seed_topic")] # None
    /\ store[StoreKey(u, "seed_topic")] # None
    /\ store[StoreKey(t, "seed_topic")] # store[StoreKey(u, "seed_topic")]

C7_ErrorExclusion ==
  \A t \in TraceIds :
    HasReport(t) =>
      /\ \A i \in 1..Len(Report(t).topQuestions) : ~Flagged(Report(t).topQuestions[i])
      /\ \A i \in 1..Len(Judged(t)) :
           Flagged(Judged(t)[i]) => Judged(t)[i] \notin Range(Report(t).topQuestions)

\* a report compiled from a list with a placeholder and fewer than five
\* other entries
C7_Witness ==
  \E t \in TraceIds :
    /\ HasReport(t)
    /\ \E i \in 1..Len(Judged(t)) :
         Flagged(Judged(t)[i]) /\ Judged(t)[i] = EvaluationError(Judged(t)[i].question, Judged(t)[i].error)
    /\ Cardinality(Unflagged(Judged(t))) \in 1..4
    /\ Len(Report(t).topQuestions) = Cardinality(Unflagged(Judged(t)))

\* C8: report size and counts. The length of topQuestions is the smaller of
\* 5 and the number of entries without error; questionsInReport is the
\* length of topQuestions; totalQuestionsEvaluated is the length of the whole
\* list, error entries included.
C8_ReportCounts ==
  \A t \in TraceIds :
    HasReport(t) =>
      /\ Len(Report(t).topQuestions) = Min(5, Cardinality(Unflagged(Judged(t))))
      /\ Report(t).metadata.questionsInReport = Len(Report(t).topQuestions)
      /\ Report(t).metadata.totalQuestionsEvaluated = Len(Judged(t))

\* a report of five questions compiled from more than five entries without
\* error and at least one with
C8_Witness ==
  \E t \in TraceIds :
    /\ HasReport(t)
    /\ Cardinality(Unflagged(Judged(t))) > 5
    /\ Len(Report(t).topQuestions) = 5
    /\ Report(t).metadata.totalQuestionsEvaluated > Cardinality(Unflagged(Judged(t)))

ReportsAnnounced(t) ==
  {i \in 1..Len(emitted[t]) : emitted[t][i].topic = "report.generated"}

IndexIn(list, q) == CHOOSE k \in 1..Len(list) : list[k] = q

AllFlagged(t) == Unflagged(Judged(t)) = {}

InfrastructureErrors == {"state.get failed", "state.set failed", "emit failed"}

\* C10: the empty-report boundary. When no entry of the evaluated-question
\* list is without error, the report-compiler stores a final report with an
\* empty topQuestions and questionsInReport = 0 and emits report.generated:
\* a final report that is stored is of that shape, the compiler is about to
\* emit only with it stored, and the compiler has finished only with
\* report.generated emitted, unless the store or the event bus failed, the
\* only causes of a workflow.error of the compiler.  The empty list itself
\* compiles to the same report without an error.
C10_EmptyReport ==
  /\ \A t \in TraceIds :
       ("questions.judged" \in EmittedTopics(t) /\ AllFlagged(t)) =>
         /\ HasReport(t) =>
              /\ Report(t).topQuestions = <<>>
              /\ Report(t).metadata.questionsInReport = 0
         /\ pc[t]["report-compiler"] = "emit" => HasReport(t)
         /\ \A i \in ErrorsOf(t, "report-compiler") :
              emitted[t][i].data.error \in InfrastructureErrors
         /\ (pc[t]["report-compiler"] = "done" /\ ErrorsOf(t, "report-compiler") = {}) =>
              HasReport(t) /\ "report.generated" \in EmittedTopics(t)
  /\ \A now \in Timestamps :
       LET report == FinalReport(1, Some("quantum computing"), <<>>, now) IN
         /\ report.topQuestions = <<>>
         /\ report.metadata.questionsInReport = 0
         /\ CompileError(report, TRUE, TRUE) = None

\* a list of placeholders only, compiled into a stored, announced, empty report
C10_Witness ==
  \E t \in TraceIds :
    /\ "questions.judged" \in EmittedTopics(t)
    /\ Judged(t) # <<>>
    /\ AllFlagged(t)
    /\ HasReport(t)
    /\ Report(t).topQuestions = <<>>
    /\ "report.generated" \in EmittedTopics(t)
    /\ "workflow.error" \notin EmittedTopics(t)

\* C11: the seed topic in the report. A stored final report carries the
\* identifier of its trace and the topic submitted to the start endpoint for
\* that trace, and the compiler has emitted no workflow.error for it; compiled
\* with the seed_topic artifact absent, the report carries "Unknown" and the
\* compilation throws nothing.
C11_SeedTopicInReport ==
  /\ \A t \in TraceIds :
       HasReport(t) =>
         /\ Report(t).traceId = t
         /\ "topic.seeded" \in EmittedTopics(t)
         /\ Report(t).seedTopic = Payload(t, "topic.seeded").topic
         /\ ErrorsOf(t, "report-compiler") = {}
  /\ \A t \in TraceIds, now \in Timestamps :
       LET report == FinalReport(t, None, <<>>, now) IN
         /\ report.traceId = t
         /\ report.seedTopic = "Unknown"
         /\ CompileError(report, TRUE, TRUE) = None

\* two traces started with two topics, each with its report
C11_Witness ==
  \E t, u \in TraceIds :
    /\ HasReport(t) /\ HasReport(u)
    /\ Report(t).seedTopic = "quantum computing"
    /\ Report(u).seedTopic = "drug discovery"


\* the evaluated_questions artifact of trace t (None until it is stored)
Evaluated(t) == store[StoreKey(t, "evaluated_questions")]
CriterionSum(q) ==
  q.novelty.value + q.feasibility.value + q.impact.value + q.crossDisciplinary.value
\* the arithmetic mean of the four criterion scores, in hundredths
MeanHundredths(q) == (CriterionSum(q) * 100) \div 4

(* C12: in the stored evaluated_questions every entry without an error has  *)
(* an overallScore equal to the mean of its four criterion scores (to two  *)
(* decimals, here in hundredths), and every entry with an error has an     *)
(* overallScore of exactly 0.  The code adds the scores with +, which      *)
(* concatenates when a score arrives as a string.                          *)
C12_OverallScoreIsMean ==
  \A t \in TraceIds :
    Evaluated(t) # None =>
      \A i \in 1..Len(Evaluated(t)[1]) :
        LET q == Evaluated(t)[1][i]
        IN IF Flagged(q) THEN q.overallScore = 0
           ELSE q.overallScore = MeanHundredths(q)

\* the questions the judger of trace t was handed
JudgerInput(t) == Payload(t, "questions.generated").questions

(* C13: the stored evaluated_questions has one entry per question of the   *)
(* questions.generated payload, in the same order, entry i carrying the    *)
(* text of input question i, whichever evaluations failed.  The spread of  *)
(* the parsed completion over the entry can replace the question text.     *)
C13_EvaluationPreservesList ==
  \A t \in TraceIds :
    Evaluated(t) # None =>
      /\ Len(Evaluated(t)[1]) = Len(JudgerInput(t))
      /\ \A i \in 1..Len(JudgerInput(t)) : Evaluated(t)[1][i].question = JudgerInput(t)[i]

ScoredShape(q) ==
  /\ q.error = Undefined
  /\ \A s \in {q.novelty, q.feasibility, q.impact, q.crossDisciplinary} : ~ScoreFalsy(s)
  /\ q.overallScore = OverallScore(q)
ErrorShape(q) ==
  /\ Truthy(q.error)
  /\ \A s \in {q.novelty, q.feasibility, q.impact, q.crossDisciplinary} : s = Num(0)
  /\ q.overallScore = 0

(* C14: every entry of the stored evaluated_questions either has no error  *)
(* field, four scored criteria and the computed overallScore, or has a     *)
(* non-empty error, four scores of 0 and an overallScore of 0; none mixes  *)
(* an error with non-zero scores.  A completion whose JSON carries an      *)
(* error key next to four scores is stored with both.                      *)
C14_EntryDichotomy ==
  \A t \in TraceIds :
    Evaluated(t) # None =>
      \A i \in 1..Len(Evaluated(t)[1]) :
        LET q == Evaluated(t)[1][i]
        IN /\ ScoredShape(q) \/ ErrorShape(q)
           /\ ~(ScoredShape(q) /\ ErrorShape(q))
           /\ Flagged(q) => CriterionSum(q) = 0


\* the extracted_content artifact of trace t (None until it is stored)
Extracted(t) == store[StoreKey(t, "extracted_content")]
\* the batch the content-extractor of trace t was handed
Batch(t) == Payload(t, "search_results.obtained").results
\* the positions of the batch that carry a URL, in batch order
UrlIndexes(results) ==
  SelectSeq([i \in 1..Len(results) |-> i], LAMBDA i : Truthy(results[i].url))
\* the attempts made for one URL end without extracted text: no attempt of the
\* MAX_RETRIES + 1 finds an article before a non-HTML answer ends them
FailsExtraction(plan) ==
  ~\E n \in 1..(MAX_RETRIES + 1) :
      /\ plan[n].kind = "ok"
      /\ \A m \in 1..(n - 1) : plan[m].kind \notin {"ok", "non_html"}
ErrorEntry(e) == Truthy(e.error) /\ e.content = ""

Attempts(plan) ==
  LET ends == {n \in 1..(MAX_RETRIES + 1) : plan[n].kind \in {"ok", "non_html"}}
  IN IF ends = {} THEN MAX_RETRIES + 1 ELSE CHOOSE n \in ends : \A m \in ends : n <= m

SoloArtifact(t, topic, name) ==
  LET queries == ParseQueries(AnsweredQueries).list
      results == AllResults(queries, [i \in 1..Len(queries) |-> AnsweredSearch])
      extracted == ExtractAll(results, [i \in 1..Len(results) |-> AnsweredFetch])
      questions == BrainstormQuestions(Some(topic), Some(extracted), AnsweredQuestions).list
      evaluated == EvaluateAll(questions, [i \in 1..Len(questions) |-> AnsweredEval])
  IN CASE name = "seed_topic" -> topic
       [] name = "generated_queries" -> queries
       [] name = "exa_search_results" -> results
       [] name = "extracted_content" -> extracted
       [] name = "generated_questions" -> questions
       [] name = "evaluated_questions" -> evaluated
       [] name = "final_report" -> FinalReport(t, Some(topic), evaluated, PollTime)

(* C17: with the stages of several traces interleaved in any order, every  *)
(* artifact stored under a trace's keys, its final report included, is the *)
(* one the trace produces when it runs alone from its own topic; a step    *)
(* writes only keys of the trace whose stage took it; and the report       *)
(* endpoint answers a trace id with that trace's report.                   *)
C17_TraceIsolation ==
  /\ [](\A t \in TraceIds :
          /\ "topic.seeded" \in EmittedTopics(t) =>
               \A name \in ArtifactNames :
                 store[StoreKey(t, name)] # None =>
                   store[StoreKey(t, name)][1]
                     = SoloArtifact(t, Payload(t, "topic.seeded").topic, name)
          /\ (reportResp # None /\ reportResp[1].traceId = t /\ reportResp[1].status = 200) =>
               /\ reportResp[1].body # None
               /\ reportResp[1].body[1].traceId = t
               /\ reportResp[1].body[1].seedTopic = Payload(t, "topic.seeded").topic)
  /\ [][\A k \in StoreKeys :
          store'[k] # store[k] =>
            /\ pc'[k[1]] # pc[k[1]]
            /\ \A u \in TraceIds \ {k[1]} : pc'[u] = pc[u]]_vars

\* one trace has its report while another, started from the other topic, is
\* still between extraction and evaluation
C17_Witness ==
  \E t, u \in TraceIds :
    /\ HasReport(t) /\ ~HasReport(u)
    /\ Extracted(u) # None /\ Evaluated(u) = None
    /\ store[StoreKey(t, "seed_topic")] # store[StoreKey(u, "seed_topic")]


\* the generated_queries artifact of trace t (None until it is stored)
GeneratedQueries(t) == store[StoreKey(t, "generated_queries")]
\* the array the strict parse reads its queries from, if the completion has one
QueriesArray(c) ==
  IF c.kind # "json" THEN None
  ELSE IF c.json.type = "array" THEN Some(c.json.items)
  ELSE IF HasArrayField(c.json, "queries") THEN Some(Field(c.json, "queries").items)
  ELSE None
\* no valid query can be obtained from the completion: its content is empty,
\* or its array has no string element, or it has no array and no quoted substring
ZeroValid(c) ==
  \/ c.kind = "empty"
  \/ /\ c.kind \in {"text", "json"}
     /\ IF QueriesArray(c) # None
          THEN \A i \in 1..Len(QueriesArray(c)[1]) : QueriesArray(c)[1][i].type # "string"
          ELSE c.quoted = <<>>

(* C18: queries.generated is emitted for a trace only with the trace's     *)
(* generated_queries stored, a non-empty list of strings equal to the      *)
(* payload's queries; and on a completion from which no valid query can be *)
(* obtained the query-generator stores nothing and goes to its             *)
(* workflow.error emit, after which it has emitted workflow.error and no   *)
(* queries.generated.                                                      *)
C18_QueryGenerationResult ==
  /\ [](\A t \in TraceIds :
          /\ "queries.generated" \in EmittedTopics(t) =>
               /\ GeneratedQueries(t) # None
               /\ GeneratedQueries(t)[1] # <<>>
               /\ GeneratedQueries(t)[1] = Payload(t, "queries.generated").queries
               /\ \A i \in 1..Len(GeneratedQueries(t)[1]) : GeneratedQueries(t)[1][i] \in STRING
          /\ (GeneratedQueries(t) = None /\ pc[t]["query-generator"] = "done") =>
               /\ ErrorsOf(t, "query-generator") # {}
               /\ "queries.generated" \notin EmittedTopics(t))
  /\ [][\A t \in TraceIds :
          Pending(t, "query-generator") =>
            \A c \in WideQueryCompletions, setOk \in BOOLEAN :
              (ZeroValid(c) /\ QueryGeneratorRun(t, TRUE, c, setOk)) =>
                /\ pc'[t]["query-generator"] = "error"
                /\ local'[t]["query-generator"][1] \in
                     {"OpenAI response content is empty.",
                      "Could not parse or extract queries from OpenAI response",
                      "No valid queries were generated or extracted."}
                /\ GeneratedQueries(t)' = None]_vars

\* the completion was an array without a string: workflow.error is emitted,
\* nothing is stored and queries.generated is not emitted
C18_Witness ==
  \E t \in TraceIds :
    /\ GeneratedQueries(t) = None
    /\ "queries.generated" \notin EmittedTopics(t)
    /\ \E i \in ErrorsOf(t, "query-generator") :
         emitted[t][i].data.error = "No valid queries were generated or extracted."


\* the step is an invocation of `stage` for trace t in which a call of the
\* store fails (the read with getOk FALSE, the write with setOk FALSE)
StoreFails(t, stage) ==
  /\ Pending(t, stage)
  /\ CASE stage = "query-generator" ->
            \E i \in 1..Len(QueryCompletions) : QueryGeneratorRun(t, TRUE, QueryCompletions[i], FALSE)
       [] stage = "exa-searcher" ->
            \E outcomes \in Answers(SearchOutcomes, Input(t, stage).queries) :
              ExaSearcherRun(t, TRUE, outcomes, FALSE)
       [] stage = "content-extractor" ->
            \E fetches \in Answers(FetchPlans, Input(t, stage).results) :
              ContentExtractorRun(t, fetches, FALSE)
       [] stage = "question-brainstormer" ->
            \E i \in 1..Len(QuestionCompletions), getOk \in BOOLEAN :
              QuestionBrainstormerRun(t, TRUE, getOk, QuestionCompletions[i], ~getOk)
       [] stage = "question-judger" ->
            \E completions \in Answers(EvalCompletions, Input(t, stage).questions),
               getOk \in BOOLEAN :
              QuestionJudgerRun(t, TRUE, getOk, completions, ~getOk)
       [] stage = "report-compiler" ->
            \E getOk \in BOOLEAN, now \in Timestamps : ReportCompilerRun(t, getOk, ~getOk, now)

(* C19: in every stage, an invocation in which a state.get or state.set    *)
(* call fails goes to the stage's workflow.error emit, and so neither to   *)
(* the emit of its successor event nor out of the handler without a        *)
(* workflow.error.  The exa-searcher and the content-extractor call        *)
(* state.set outside any try: their handlers reject.                       *)
C19_StoreFailureSurfaces ==
  [][\A t \in TraceIds, stage \in EventStages :
       StoreFails(t, stage) => pc'[t][stage] = "error"]_vars


\* the workflow.error events emitted for trace t
WorkflowErrors(t) ==
  {i \in 1..Len(emitted[t]) : emitted[t][i].topic = "workflow.error"}

\* the bus has refused an emit of a stage of trace t and the handler ended there
BusRefused(t) ==
  \E stage \in EventStages :
    /\ pc[t][stage] \in {"done", "rejected"}
    /\ local[t][stage] = Some(EmitFailure(stage))

(* C20: under fair scheduling of the stage invocations, every trace the    *)
(* start endpoint has started (topic.seeded emitted) eventually has its    *)
(* final_report stored or a workflow.error event emitted, unless the bus   *)
(* itself has refused an emit of the trace.  A handler whose state.set     *)
(* rejects outside its try ends the trace with neither.                    *)
C20_NoSilentStall ==
  \A t \in TraceIds :
    ("topic.seeded" \in EmittedTopics(t))
      ~> (HasReport(t) \/ WorkflowErrors(t) # {} \/ BusRefused(t))


(* C21: once workflow.error has been emitted for a trace, no pipeline      *)
(* successor event is emitted for that trace afterwards and no artifact of *)
(* the trace is written any more.                                          *)
C21_ErroredAbsorbing ==
  /\ [](\A t \in TraceIds :
          \A i \in WorkflowErrors(t) :
            \A j \in (i + 1)..Len(emitted[t]) : emitted[t][j].topic = "workflow.error")
  /\ [][\A t \in TraceIds :
          WorkflowErrors(t) # {} =>
            /\ \A name \in ArtifactNames : store'[StoreKey(t, name)] = store[StoreKey(t, name)]
            /\ \A j \in 1..Len(emitted'[t]) :
                 j > Len(emitted[t]) => emitted'[t][j].topic \notin PipelineTopics]_vars

\* the question-brainstormer has emitted workflow.error after three stages
\* stored their artifacts, and every handler of the trace has ended
C21_Witness ==
  \E t \in TraceIds :
    /\ ErrorsOf(t, "question-brainstormer") # {}
    /\ Extracted(t) # None
    /\ store[StoreKey(t, "generated_questions")] = None
    /\ \A stage \in Stages : pc[t][stage] \in {"idle", "done"}


\* an attempt that ends with extracted text
Succeeds(outcome) == outcome.kind = "ok"
\* the calls one attempt is due: the fetch, and the wait before the next attempt
\* when the attempt failed and is not the last one allowed
AttemptCalls(url, plan, a) ==
  <<Call("fetch", "content-extractor", url)>>
    \o (IF plan[a].kind \notin {"ok", "non_html"} /\ a < MAX_RETRIES + 1
          THEN <<Call("delay", "content-extractor", 1000)>> ELSE <<>>)
\* the error the entry of a URL carries after its last attempt
LastError(plan) ==
  LET last == plan[Attempts(plan)]
  IN IF Succeeds(last) THEN Undefined
     ELSE IF last.kind = "non_html" THEN "Skipped non-HTML content type"
     ELSE FetchErrorMessage(last.kind)

AttemptMade(plan, a) == \A b \in 1..(a - 1) : plan[b].kind \notin {"ok", "non_html"}
\* the calls of an invocation that fetched only one URL are a attempts long:
\* a fetches, the last call being the a-th fetch
EndsAfter(made, a) ==
  /\ Len(SelectSeq(made, LAMBDA c : c.service = "fetch")) = a
  /\ made[Len(made)].service = "fetch"

(* C23: when an attempt for a URL gets a 2xx answer whose content type is  *)
(* not text/html, whatever the attempt's number, the content-extractor     *)
(* records for the URL an entry with the skip error and empty content, and *)
(* makes no further fetch for that URL.                                    *)
C23_NonHtmlNotRetried ==
  [][\A t \in TraceIds :
       Pending(t, "content-extractor") =>
         \A fetches \in FetchesFor(Batch(t)) :
           ContentExtractorRun(t, fetches, TRUE) =>
             LET made == SubSeq(calls'[t], Len(calls[t]) + 1, Len(calls'[t]))
                 ix == UrlIndexes(Batch(t))
                 entries == Extracted(t)'[1]
             IN \A j \in 1..Len(ix), a \in 1..(MAX_RETRIES + 1) :
                  (fetches[ix[j]][a].kind = "non_html" /\ AttemptMade(fetches[ix[j]], a)) =>
                    /\ entries[j].error = "Skipped non-HTML content type"
                    /\ entries[j].content = ""
                    /\ Len(Batch(t)) = 1 => EndsAfter(made, a)]_vars

\* the second attempt for a URL, made after a failed first one, met a non-HTML
\* answer: two fetches, one wait, the skip error recorded
C23_Witness ==
  \E t \in TraceIds :
    /\ Extracted(t) # None
    /\ Len(Extracted(t)[1]) = 1
    /\ Extracted(t)[1][1].error = "Skipped non-HTML content type"
    /\ LET made == SelectSeq(calls[t], LAMBDA c : c.stage = "content-extractor")
       IN [n \in 1..Len(made) |-> made[n].service] = <<"fetch", "delay", "fetch">>


\* on every invocation, for every URL and every attempt made for it that meets
\* an outcome of `kind`: the entry carries `error`, and no fetch follows
TerminalOn(kind, error) ==
  \A t \in TraceIds :
    Pending(t, "content-extractor") =>
      \A fetches \in FetchesFor(Batch(t)) :
        ContentExtractorRun(t, fetches, TRUE) =>
          LET made == SubSeq(calls'[t], Len(calls[t]) + 1, Len(calls'[t]))
              ix == UrlIndexes(Batch(t))
              entries == Extracted(t)'[1]
          IN \A j \in 1..Len(ix), a \in 1..(MAX_RETRIES + 1) :
               (fetches[ix[j]][a].kind = kind /\ AttemptMade(fetches[ix[j]], a)) =>
                 /\ entries[j].error = error
                 /\ entries[j].content = ""
                 /\ Len(Batch(t)) = 1 => EndsAfter(made, a)

(* C24: when an attempt for a URL gets a non-2xx status, the               *)
(* content-extractor records the HTTP error for the URL and makes no       *)
(* further fetch for it.  The status check throws into the catch of the    *)
(* retry loop, so the URL is fetched again.                                *)
C24_Non2xxTerminal ==
  [][TerminalOn("http_error", "HTTP error! status: 404")]_vars

(* C25: when an attempt for a URL gets HTML from which no text can be      *)
(* extracted, the content-extractor records the error for the URL and      *)
(* makes no further fetch for it.  The empty extraction throws into the    *)
(* catch of the retry loop, so the URL is fetched again.                   *)
C25_EmptyExtractionNotRetried ==
  [][TerminalOn("no_content", "Readability could not extract content")]_vars


(* C26: while the content-extractor is suspended inside an attempt, on the *)
(* fetch or on the read of the response body, the 15 s timer of that       *)
(* attempt is armed; and the timer of an attempt that has ended is never   *)
(* left armed.  The timer is cleared as soon as the fetch resolves, before *)
(* the body is read.                                                       *)
C26_TimeoutCancellation ==
  \A t \in TraceIds :
    Running(t) =>
      LET frame == FrameOf(t) IN
        /\ frame.at \in {"fetch", "text"} => frame.timers[frame.attempt] = "armed"
        /\ \A n \in 1..Len(frame.timers) :
             (n < frame.attempt \/ frame.at \in {"loop", "delay"}) => frame.timers[n] # "armed"


(***************************************************************************)
(* The content-extractor and the question-brainstormer together: one trace *)
(* that either holds a search-result batch still to be extracted, or has   *)
(* content.extracted emitted over a stored list of ExtractedContent items, *)
(* among them failed items that carry an excerpt.                          *)
(***************************************************************************)
ContentPool ==
  {ExtractedContent("https://a.example", "A", "text of the page", Undefined, Undefined),
   ExtractedContent("https://b.example", "B", "long text of the page", "short excerpt", Undefined),
   ExtractedContent("https://c.example", "C", "", Undefined, "HTTP error! status: 404"),
   ExtractedContent("https://d.example", "D", "", "cached excerpt", "Fetch timed out after 15s")}

ContentLists == UNION {[1..n -> ContentPool] : n \in 1..MaxResults}

\* the state of trace t once the content-extractor has emitted content.extracted
\* with `extracted`
\* with `extracted`, the store no longer holding the artifacts named in `lost`
ExtractedStateWithout(t, topic, extracted, lost) ==
  LET queries == ParseQueries(AnsweredQueries).list
      results == [i \in 1..Len(extracted) |->
                    SearchResult(extracted[i].url, extracted[i].title)]
      artifacts == [n \in ArtifactNames |->
                      CASE n = "seed_topic" -> Some(topic)
                        [] n = "generated_queries" -> Some(queries)
                        [] n = "exa_search_results" -> Some(results)
                        [] n = "extracted_content" -> Some(extracted)
                        [] OTHER -> None]
  IN /\ store = [k \in StoreKeys |->
                   IF k[1] = t /\ k[2] \notin lost THEN artifacts[k[2]] ELSE None]
     /\ emitted = [u \in TraceIds |->
          IF u # t THEN <<>>
          ELSE << Event("topic.seeded", [traceId |-> t, topic |-> topic]),
                  Event("queries.generated", [traceId |-> t, queries |-> queries]),
                  Event("search_results.obtained",
                        [traceId |-> t, results |-> results, errors |-> <<>>]),
                  Event("content.extracted", [traceId |-> t, extractedContent |-> extracted]) >>]
     /\ inbox = [u \in TraceIds |-> IF u = t THEN {"question-brainstormer"} ELSE {}]
     /\ pc = [u \in TraceIds |-> [s \in Stages |->
                IF u = t /\ s \in {"research-starter", "query-generator", "exa-searcher",
                                   "content-extractor"}
                  THEN "done" ELSE "idle"]]
     /\ local = [u \in TraceIds |-> [s \in Stages |-> None]]
     /\ issued = [i \in 1..t |-> i]
     /\ startResp = [u \in TraceIds |-> IF u = t THEN <<"200">> ELSE <<>>]
     /\ reportResp = None
     /\ calls = [u \in TraceIds |->
          IF u # t THEN <<>>
          ELSE <<Call("completion", "query-generator", topic)>>
               \o [i \in 1..Len(queries) |-> Call("search", "exa-searcher", queries[i])]
               \o [i \in 1..Len(results) |-> Call("fetch", "content-extractor", results[i].url)]]

ExtractedState(t, topic, extracted) == ExtractedStateWithout(t, topic, extracted, {})

InitContext ==
  \/ InitExtractor
  \/ \E extracted \in ContentLists : ExtractedState(1, "quantum computing", extracted)

NextContext ==
  \/ NextExtractor
  \/ \E t \in TraceIds, hasKey, getOk, setOk \in BOOLEAN, i \in DOMAIN QuestionCompletions :
       QuestionBrainstormerRun(t, hasKey, getOk, QuestionCompletions[i], setOk)
  \/ \E t \in TraceIds, emitOk \in BOOLEAN : QuestionBrainstormerEmit(t, emitOk)
  \/ \E t \in TraceIds, emitOk \in BOOLEAN : QuestionBrainstormerEmitError(t, emitOk)

SpecContext == InitContext /\ [][NextContext]_vars

\* the context entries of the completion requests the brainstormer of trace t made
Contexts(t) ==
  LET made == SelectSeq(calls[t], LAMBDA c : c.service = "completion"
                                             /\ c.stage = "question-brainstormer")
  IN {made[i].arg : i \in 1..Len(made)}
Failed(item) == Truthy(item.error)
\* every entry of the context is the summary of a stored item without an error,
\* and no excerpt of a failed item is in it
OnlyFromUnfailed(context, items) ==
  /\ \A i \in 1..Len(context) :
       \E j \in 1..Len(items) :
         /\ ~Failed(items[j])
         /\ context[i].source = items[j].url
         /\ context[i].summary \in {items[j].excerpt, items[j].content}
  /\ Len(context) <= Len(SelectSeq(items, LAMBDA item : ~Failed(item)))
  /\ \A j \in 1..Len(items) :
       Failed(items[j]) =>
         \A i \in 1..Len(context) :
           context[i].summary # items[j].excerpt /\ context[i].summary # items[j].error

(* C27: every item the content-extractor records with an error has empty   *)
(* content, and the context the question-brainstormer builds for its       *)
(* completion request holds text of items without an error only: a failed  *)
(* item is left out even when it carries an excerpt.                       *)
C27_FailedKeptOutOfContext ==
  /\ [](\A t \in TraceIds :
          Extracted(t) # None => \A context \in Contexts(t) :
                                   OnlyFromUnfailed(context, Extracted(t)[1]))
  /\ [][\A t \in TraceIds :
          Pending(t, "content-extractor") =>
            \A fetches \in FetchesFor(Batch(t)) :
              ContentExtractorRun(t, fetches, TRUE) =>
                \A j \in 1..Len(Extracted(t)'[1]) :
                  Failed(Extracted(t)'[1][j]) => Extracted(t)'[1][j].content = ""]_vars

\* the brainstormer asked for a completion over a list that holds a failed item
\* with an excerpt, and the context holds the other item only
C27_Witness ==
  \E t \in TraceIds :
    /\ Extracted(t) # None
    /\ \E j \in 1..Len(Extracted(t)[1]) :
         Failed(Extracted(t)[1][j]) /\ Truthy(Extracted(t)[1][j].excerpt)
    /\ \E context \in Contexts(t) : Len(context) = 1 /\ Len(Extracted(t)[1]) = 2


(* C28: when every URL of a search-result batch fails extraction, so that  *)
(* every recorded item carries an error, the content-extractor does not    *)
(* forward the batch with content.extracted.  The handler has no error     *)
(* path: it stores and forwards whatever the loop recorded.                *)
C28_ZeroExtractionsEscalated ==
  \A t \in TraceIds :
    "content.extracted" \in EmittedTopics(t) =>
      LET forwarded == Payload(t, "content.extracted").extractedContent
      IN ~(forwarded # <<>> /\ \A j \in 1..Len(forwarded) : Failed(forwarded[j]))


(***************************************************************************)
(* The exa-searcher on its own: one trace whose query-generator has        *)
(* emitted queries.generated with one to MaxQueries queries, every search  *)
(* failing, finding nothing, or returning one or two results.              *)
(***************************************************************************)
QueryTexts == <<"query one", "query two", "query three", "query four">>

SearchPool ==
  {SearchThrows, SearchReturns(<<>>),
   SearchReturns(<<SearchResult("https://a.example", "A")>>),
   SearchReturns(<<SearchResult("https://b.example", "B"), SearchResult("https://c.example", "C")>>)}

\* the state of trace t once the query-generator has emitted queries.generated
QueriedState(t, topic, queries) ==
  /\ store = [k \in StoreKeys |->
                IF k = StoreKey(t, "seed_topic") THEN Some(topic)
                ELSE IF k = StoreKey(t, "generated_queries") THEN Some(queries)
                ELSE None]
  /\ emitted = [u \in TraceIds |->
       IF u # t THEN <<>>
       ELSE << Event("topic.seeded", [traceId |-> t, topic |-> topic]),
               Event("queries.generated", [traceId |-> t, queries |-> queries]) >>]
  /\ inbox = [u \in TraceIds |-> IF u = t THEN {"exa-searcher"} ELSE {}]
  /\ pc = [u \in TraceIds |-> [s \in Stages |->
             IF u = t /\ s \in {"research-starter", "query-generator"} THEN "done" ELSE "idle"]]
  /\ local = [u \in TraceIds |-> [s \in Stages |-> None]]
  /\ issued = [i \in 1..t |-> i]
  /\ startResp = [u \in TraceIds |-> IF u = t THEN <<"200">> ELSE <<>>]
  /\ reportResp = None
  /\ calls = [u \in TraceIds |->
       IF u # t THEN <<>> ELSE <<Call("completion", "query-generator", topic)>>]

InitSearch ==
  \E n \in 1..MaxQueries : QueriedState(1, "quantum computing", SubSeq(QueryTexts, 1, n))

NextSearch ==
  \/ \E t \in TraceIds, hasKey, setOk \in BOOLEAN :
       /\ Pending(t, "exa-searcher")
       /\ \E outcomes \in Answers(SearchPool, Input(t, "exa-searcher").queries) :
            ExaSearcherRun(t, hasKey, outcomes, setOk)
  \/ \E t \in TraceIds, emitOk \in BOOLEAN : ExaSearcherEmit(t, emitOk)
  \/ \E t \in TraceIds, emitOk \in BOOLEAN : ExaSearcherEmitError(t, emitOk)

SpecSearch == InitSearch /\ [][NextSearch]_vars

\* the queries the exa-searcher of trace t is handed
Queries(t) == Payload(t, "queries.generated").queries
SearchArtifact(t) == store[StoreKey(t, "exa_search_results")]
\* no search of the invocation yields a result: each one failed or found nothing
YieldNothing(outcomes) ==
  \A i \in 1..Len(outcomes) : outcomes[i].threw \/ outcomes[i].results = <<>>

RECURSIVE ResultsUpTo(_, _)
ResultsUpTo(outcomes, n) ==
  IF n = 0 THEN <<>>
  ELSE ResultsUpTo(outcomes, n - 1) \o (IF outcomes[n].threw THEN <<>> ELSE outcomes[n].results)
\* the queries whose search failed, in query order
FailedQueries(queries, outcomes) ==
  LET failed == SelectSeq([i \in 1..Len(queries) |-> i], LAMBDA i : outcomes[i].threw)
  IN [j \in 1..Len(failed) |-> queries[failed[j]]]
\* what the invocation forwards: every result in query order and per-query
\* order, one error per failed query
Forwarded(t, outcomes) ==
  [traceId |-> t,
   results |-> ResultsUpTo(outcomes, Len(outcomes)),
   errors |-> [j \in 1..Len(FailedQueries(Queries(t), outcomes)) |->
                 [query |-> FailedQueries(Queries(t), outcomes)[j],
                  error |-> "Exa request failed"]]]

(* C30: for every list of queries the exa-searcher makes one search per    *)
(* query, in query order, whatever searches failed before; when at least   *)
(* one search returns results it stores all results obtained, in query     *)
(* order and per-query order, forwards them with search_results.obtained   *)
(* together with one error per failed query, and emits no workflow.error.  *)
C30_SearchPartialSuccess ==
  /\ [][\A t \in TraceIds :
          Pending(t, "exa-searcher") =>
            \A outcomes \in Answers(SearchPool, Queries(t)) :
              ExaSearcherRun(t, TRUE, outcomes, TRUE) =>
                /\ calls'[t] = calls[t] \o [i \in 1..Len(Queries(t)) |->
                                              Call("search", "exa-searcher", Queries(t)[i])]
                /\ ~YieldNothing(outcomes) =>
                     /\ SearchArtifact(t)' = Some(Forwarded(t, outcomes).results)
                     /\ pc'[t]["exa-searcher"] = "emit"
                     /\ local'[t]["exa-searcher"] = Some(Forwarded(t, outcomes))]_vars
  /\ [][\A t \in TraceIds :
          (pc[t]["exa-searcher"] = "emit" /\ ExaSearcherEmit(t, TRUE)) =>
            /\ "search_results.obtained" \in EmittedTopics(t)'
            /\ Payload(t, "search_results.obtained")' = local[t]["exa-searcher"][1]
            /\ Pending(t, "content-extractor")'
            /\ pc'[t]["exa-searcher"] = "done"]_vars
  /\ [](\A t \in TraceIds :
          (pc[t]["exa-searcher"] = "emit" \/ "search_results.obtained" \in EmittedTopics(t)) =>
            /\ ErrorsOf(t, "exa-searcher") = {}
            /\ pc[t]["exa-searcher"] # "error"
            /\ "search_results.obtained" \in EmittedTopics(t) =>
                 SearchArtifact(t) = Some(Payload(t, "search_results.obtained").results))

\* three searches, the second failed, the first and third with results: the
\* three results are forwarded in order with the error of the second query
C30_Witness ==
  \E t \in TraceIds :
    /\ "search_results.obtained" \in EmittedTopics(t)
    /\ Len(SelectSeq(calls[t], LAMBDA c : c.service = "search")) = 3
    /\ LET forwarded == Payload(t, "search_results.obtained")
       IN /\ forwarded.results = << SearchResult("https://b.example", "B"),
                                    SearchResult("https://c.example", "C"),
                                    SearchResult("https://a.example", "A") >>
          /\ forwarded.errors = << [query |-> "query two", error |-> "Exa request failed"] >>


\* the stages that need an API key, and the message each reports without it
KeyStages == {"query-generator", "exa-searcher", "question-brainstormer", "question-judger"}
MissingKey(stage) ==
  IF stage = "exa-searcher" THEN "Missing Exa API Key" ELSE "Missing OpenAI API Key"
\* the handler of the stage is invoked for trace t and finds no API key
RunsWithoutKey(t, stage) ==
  CASE stage = "query-generator" ->
         \E setOk \in BOOLEAN, i \in 1..Len(QueryCompletions) :
           QueryGeneratorRun(t, FALSE, QueryCompletions[i], setOk)
    [] stage = "exa-searcher" ->
         /\ Pending(t, stage)
         /\ \E setOk \in BOOLEAN, outcomes \in Answers(SearchOutcomes, Input(t, stage).queries) :
              ExaSearcherRun(t, FALSE, outcomes, setOk)
    [] stage = "question-brainstormer" ->
         \E getOk, setOk \in BOOLEAN, i \in 1..Len(QuestionCompletions) :
           QuestionBrainstormerRun(t, FALSE, getOk, QuestionCompletions[i], setOk)
    [] stage = "question-judger" ->
         /\ Pending(t, stage)
         /\ \E getOk, setOk \in BOOLEAN,
               completions \in Answers(EvalCompletions, Input(t, stage).questions) :
              QuestionJudgerRun(t, FALSE, getOk, completions, setOk)
\* the bus accepts the workflow.error of the stage
ErrorCarried(t, stage) ==
  CASE stage = "query-generator" -> QueryGeneratorEmitError(t, TRUE)
    [] stage = "exa-searcher" -> ExaSearcherEmitError(t, TRUE)
    [] stage = "question-brainstormer" -> QuestionBrainstormerEmitError(t, TRUE)
    [] stage = "question-judger" -> QuestionJudgerEmitError(t, TRUE)
MissingKeyErrors(t, stage) ==
  {i \in ErrorsOf(t, stage) : emitted[t][i].data.error = MissingKey(stage)}

(* C31: a stage invoked without the API key it needs makes no request to   *)
(* an external service, leaves the store as it is and emits nothing but    *)
(* workflow.error with {traceId, step, error}; a trace with that error has *)
(* it once, has no call and no artifact of the stage and never has the     *)
(* stage's successor event.                                                *)
C31_MissingCredentials ==
  /\ [][\A t \in TraceIds, stage \in KeyStages :
          RunsWithoutKey(t, stage) =>
            /\ calls' = calls /\ store' = store /\ emitted' = emitted
            /\ pc'[t][stage] = "error"]_vars
  /\ [][\A t \in TraceIds, stage \in KeyStages :
          (pc[t][stage] = "error" /\ local[t][stage] = Some(MissingKey(stage))
           /\ ErrorCarried(t, stage)) =>
            /\ emitted'[t] = Append(emitted[t],
                                    Event("workflow.error",
                                          WorkflowError(t, stage, MissingKey(stage))))
            /\ pc'[t][stage] = "done"
            /\ calls' = calls /\ store' = store]_vars
  /\ [](\A t \in TraceIds, stage \in KeyStages :
          MissingKeyErrors(t, stage) # {} =>
            /\ Cardinality(ErrorsOf(t, stage)) = 1
            /\ Emits(stage) \notin EmittedTopics(t)
            /\ store[StoreKey(t, Artifact(stage))] = None
            /\ \A i \in 1..Len(calls[t]) : calls[t][i].stage # stage)

\* the exa-searcher of a trace found no key and its workflow.error is on the bus
C31_Witness ==
  \E t \in TraceIds :
    /\ MissingKeyErrors(t, "exa-searcher") # {}
    /\ pc[t]["exa-searcher"] = "done"


\* the array the parsing policy names for a JSON root: the root itself, the
\* array under the conventional field, else the first array-valued field
PolicyArray(json, conventional) ==
  IF json.type = "array" THEN Some(json.items)
  ELSE IF json.type # "object" THEN None
  ELSE IF HasArrayField(json, conventional) THEN Some(Field(json, conventional).items)
  ELSE LET arrays == SelectSeq(json.values, LAMBDA v : v.type = "array")
       IN IF arrays = <<>> THEN None ELSE Some(arrays[1].items)

(* C32: when the completion of the query-generator is valid JSON with an   *)
(* array or object root, the list it stores is the string elements of the  *)
(* array the policy names (the root, the queries field, else the first     *)
(* array-valued field), and no key of the object is in the list.  The      *)
(* query-generator has no first-array fallback: an object without a        *)
(* queries array goes to the quoted-substring extraction, keys included.   *)
C32_ObjectRootPolicy ==
  [][\A t \in TraceIds :
       Pending(t, "query-generator") =>
         \A c \in WideQueryCompletions :
           (/\ c.kind = "json"
            /\ c.json.type \in {"array", "object"}
            /\ QueryGeneratorRun(t, TRUE, c, TRUE)
            /\ GeneratedQueries(t)' # None) =>
             /\ PolicyArray(c.json, "queries") # None
             /\ GeneratedQueries(t)'[1] = StringsOf(PolicyArray(c.json, "queries")[1])
             /\ c.json.type = "object" =>
                  \A i \in 1..Len(c.json.keys), j \in 1..Len(GeneratedQueries(t)'[1]) :
                    GeneratedQueries(t)'[1][j] # c.json.keys[i]]_vars


(***************************************************************************)
(* The question-brainstormer on its own: one trace with content.extracted  *)
(* emitted, over every stored list (the empty one included) and with the   *)
(* seed topic or the extracted content possibly gone from the store, and   *)
(* every shape of completion the parse may meet.                           *)
(***************************************************************************)
WideQuestionCompletions ==
  {ChatThrows, ChatEmpty,
   ChatText(<<>>),
   ChatText(<<"Q1", "Q2">>),
   ChatJson(JArray(<<JString("Q1"), JNumber, JString("Q2")>>)),
   ChatJson(JArray(<<>>)),
   ChatJson(JObject(<<"questions">>, <<JArray(<<JString("Q1")>>)>>)),
   ChatJson(JObject(<<"note", "items">>, <<JString("n"), JArray(<<JString("Q1"), JString("Q2")>>)>>)),
   ChatJson(JObject(<<"note">>, <<JString("n")>>))}

InitQuestions ==
  \E extracted \in ContentLists \cup {<<>>}, lost \in SUBSET {"seed_topic", "extracted_content"} :
    ExtractedStateWithout(1, "quantum computing", extracted, lost)

NextQuestions ==
  \/ \E t \in TraceIds, hasKey, getOk, setOk \in BOOLEAN, c \in WideQuestionCompletions :
       QuestionBrainstormerRun(t, hasKey, getOk, c, setOk)
  \/ \E t \in TraceIds, emitOk \in BOOLEAN : QuestionBrainstormerEmit(t, emitOk)
  \/ \E t \in TraceIds, emitOk \in BOOLEAN : QuestionBrainstormerEmitError(t, emitOk)

SpecQuestions == InitQuestions /\ [][NextQuestions]_vars

GeneratedQuestions(t) == store[StoreKey(t, "generated_questions")]
SeedTopic(t) == store[StoreKey(t, "seed_topic")]
\* the brainstormer of trace t finds its topic and a non-empty list in the store
Brainstormable(t) ==
  SeedTopic(t) # None /\ Extracted(t) # None /\ Extracted(t)[1] # <<>>

(* C33: when the completion of the question-brainstormer is not JSON at    *)
(* all, the quoted substrings of the text are taken as the questions: the  *)
(* stage stores them, the same list the query-generator derives from the   *)
(* text, and fails only when the text has no quoted substring.  The        *)
(* brainstormer's catch only rethrows: it has no heuristic.                *)
C33_LastResortHeuristic ==
  [][\A t \in TraceIds :
       (Pending(t, "question-brainstormer") /\ Brainstormable(t)) =>
         \A c \in WideQuestionCompletions :
           (c.kind = "text" /\ QuestionBrainstormerRun(t, TRUE, TRUE, c, TRUE)) =>
             IF c.quoted # <<>>
               THEN /\ ParseQueries(c).ok
                    /\ GeneratedQuestions(t)' = Some(ParseQueries(c).list)
                    /\ GeneratedQuestions(t)' = Some(c.quoted)
               ELSE pc'[t]["question-brainstormer"] = "error"]_vars


\* a criterion score as the evaluation prompt asks for it: a number from 1 to 10
ValidScore(score) == score.type = "number" /\ score.value \in 1..10

(* C34: every entry of the stored evaluated_questions without an error has *)
(* four criterion scores that are numbers within 1..10 and an overallScore *)
(* within 1..10 (100..1000 hundredths): a completion of another shape is   *)
(* recorded as an error entry.  The code tests the scores for truthiness   *)
(* only, so a score that is a string passes.                               *)
C34_InvalidShapeRejected ==
  \A t \in TraceIds :
    Evaluated(t) # None =>
      \A i \in 1..Len(Evaluated(t)[1]) :
        LET q == Evaluated(t)[1][i]
        IN ~Flagged(q) =>
             /\ \A s \in {q.novelty, q.feasibility, q.impact, q.crossDisciplinary} : ValidScore(s)
             /\ q.overallScore \in 100..1000


\* the completion requests of a stage among the calls a step adds for trace t
NewCompletions(t, stage) ==
  SelectSeq(SubSeq(calls'[t], Len(calls[t]) + 1, Len(calls'[t])),
            LAMBDA c : c.service = "completion" /\ c.stage = stage)

Writer(name) ==
  CASE name = "seed_topic" -> "research-starter"
    [] name = "generated_queries" -> "query-generator"
    [] name = "exa_search_results" -> "exa-searcher"
    [] name = "extracted_content" -> "content-extractor"
    [] name = "generated_questions" -> "question-brainstormer"
    [] name = "evaluated_questions" -> "question-judger"
    [] name = "final_report" -> "report-compiler"
\* the stages of trace t whose handler moves in the step
Acting(t) == {stage \in Stages : pc'[t][stage] # pc[t][stage]}

LeftOut(t) ==
  {i \in 1..Len(Judged(t)) :
     \A j \in 1..Len(Report(t).topQuestions) :
       Report(t).topQuestions[j].question # Judged(t)[i].question}

ReportedState(t, topic, questions, completions, now, announced) ==
  LET queries == ParseQueries(AnsweredQueries).list
      results == AllResults(queries, [i \in 1..Len(queries) |-> AnsweredSearch])
      errors == SearchErrors(queries, [i \in 1..Len(queries) |-> AnsweredSearch])
      fetches == [i \in 1..Len(results) |-> AnsweredFetch]
      extracted == ExtractAll(results, fetches)
      evaluated == EvaluateAll(questions, completions)
      report == FinalReport(t, Some(topic), evaluated, now)
      artifacts == [n \in ArtifactNames |->
                      CASE n = "seed_topic" -> Some(topic)
                        [] n = "generated_queries" -> Some(queries)
                        [] n = "exa_search_results" -> Some(results)
                        [] n = "extracted_content" -> Some(extracted)
                        [] n = "generated_questions" -> Some(questions)
                        [] n = "evaluated_questions" -> Some(evaluated)
                        [] n = "final_report" -> Some(report)]
  IN /\ store = [k \in StoreKeys |-> IF k[1] = t THEN artifacts[k[2]] ELSE None]
     /\ emitted = [u \in TraceIds |->
          IF u # t THEN <<>>
          ELSE << Event("topic.seeded", [traceId |-> t, topic |-> topic]),
                  Event("queries.generated", [traceId |-> t, queries |-> queries]),
                  Event("search_results.obtained",
                        [traceId |-> t, results |-> results, errors |-> errors]),
                  Event("content.extracted", [traceId |-> t, extractedContent |-> extracted]),
                  Event("questions.generated", [traceId |-> t, questions |-> questions]),
                  Event("questions.judged", [traceId |-> t, evaluatedQuestions |-> evaluated]) >>
               \o IF announced
                    THEN <<Event("report.generated", [traceId |-> t, report |-> report])>>
                    ELSE <<>>]
     /\ inbox = [u \in TraceIds |-> {}]
     /\ pc = [u \in TraceIds |-> [s \in Stages |->
                IF u # t THEN "idle"
                ELSE IF s = "report-compiler" /\ ~announced THEN "emit"
                ELSE "done"]]
     /\ local = [u \in TraceIds |-> [s \in Stages |->
                   IF u = t /\ s = "report-compiler" /\ ~announced THEN Some(report) ELSE None]]
     /\ issued = [i \in 1..t |-> i]
     /\ startResp = [u \in TraceIds |-> IF u = t THEN <<"200">> ELSE <<>>]
     /\ reportResp = Some(Response(t, 200, Some(report), FALSE))
     /\ calls = [u \in TraceIds |->
          IF u # t THEN <<>>
          ELSE <<Call("completion", "query-generator", topic)>>
               \o [i \in 1..Len(queries) |-> Call("search", "exa-searcher", queries[i])]
               \o FetchCalls(results, fetches)
               \o <<Call("completion", "question-brainstormer", ContextEntries(extracted))>>
               \o [i \in 1..Len(questions) |-> Call("completion", "question-judger", questions[i])]]

InitReport ==
  \E n \in 1..MaxQuestions, announced \in BOOLEAN :
    \E completions \in [1..n -> ReportEvalCompletions] :
      ReportedState(1, "quantum computing", SubSeq(QuestionTexts, 1, n), completions,
                    CompileTimes[1], announced)

NextReport ==
  \/ \E traceId \in QueryParams, getOk \in BOOLEAN : ReportRetrieverHandler(traceId, getOk)
  \/ ClientReadsResponse
  \/ \E t \in TraceIds, emitOk \in BOOLEAN : ReportCompilerEmit(t, emitOk)
  \/ \E t \in TraceIds, emitOk \in BOOLEAN : ReportCompilerEmitError(t, emitOk)

SpecReport == InitReport /\ [][NextReport]_vars

\* the endpoint has returned 200 for the trace: under SpecReport it has for the
\* trace that holds a report, from the first state on
Reported(id) == HasReport(id)

\* C38 as stated: once the endpoint has returned 200 for a trace, every later
\* call for the trace returns 200 with the same report.
C38_AsStated ==
  [][\A id \in TraceIds :
       (Reported(id) /\ ReportAnswered(id)) =>
         /\ reportResp'[1].status = 200
         /\ reportResp'[1].body = store[StoreKey(id, "final_report")]]_vars

(* C38, amended: once the endpoint has returned 200 for a trace, the       *)
(* stored final report never changes, no step of the endpoint writes to    *)
(* the store or emits an event, and every later call for the trace returns *)
(* 200 with the same report when its read of the store succeeds and 500    *)
(* when the read fails.                                                    *)
C38_ReportStability ==
  /\ [][\A id \in TraceIds :
          Reported(id) =>
            store'[StoreKey(id, "final_report")] = store[StoreKey(id, "final_report")]]_vars
  /\ [][reportResp' # reportResp =>
          store' = store /\ emitted' = emitted /\ inbox' = inbox]_vars
  /\ [][\A id \in TraceIds :
          (Reported(id) /\ ReportAnswered(id)) =>
            LET resp == reportResp'[1]
            IN /\ resp.status \in {200, 500}
               /\ (resp.status = 500) <=> resp.getThrew
               /\ resp.status = 200 => resp.body = store[StoreKey(id, "final_report")]]_vars

\* a later call for the trace met a failed read of the store and was answered
\* 500, the report being stored and announced as before
C38_Witness ==
  \E t \in TraceIds :
    /\ HasReport(t)
    /\ "report.generated" \in EmittedTopics(t)
    /\ Len(Report(t).topQuestions) = 2
    /\ reportResp = Some(Response(t, 500, None, TRUE))


(* C39: no trace has both a workflow.error emitted by one of its stages    *)
(* and a stored final report.  The report-compiler stores the report       *)
(* before it emits report.generated, inside the same try: when that emit   *)
(* fails, the catch emits workflow.error for a trace whose report stays    *)
(* stored.                                                                 *)
C39_ErroredExcludesReport ==
  \A t \in TraceIds : ~(WorkflowErrors(t) # {} /\ HasReport(t))


\* the completion requests the brainstormer of trace t has made
BrainstormerCalls(t) ==
  SelectSeq(calls[t], LAMBDA c : c.service = "completion" /\ c.stage = "question-brainstormer")
\* the store holds a non-empty list for the trace and no item of it can be summarised
NothingUsable(t) ==
  Brainstormable(t) /\ \A i \in 1..Len(Extracted(t)[1]) : ~IsUsable(Extracted(t)[1][i])

(* C40: when the seed topic of the trace is not in the store, or the       *)
(* extracted content is not in the store or is an empty list, the          *)
(* question-brainstormer makes no completion request, writes no            *)
(* generated_questions, goes to its workflow.error emit, which the bus     *)
(* then carries, and never emits questions.generated; when the list is     *)
(* non-empty and no item of it is usable, it makes the request with an     *)
(* empty context and, on a completion with questions, stores them and goes *)
(* on to emit questions.generated.                                         *)
C40_BrainstormerPreconditions ==
  /\ [][\A t \in TraceIds :
          (Pending(t, "question-brainstormer") /\ ~Brainstormable(t)) =>
            \A c \in WideQuestionCompletions, setOk \in BOOLEAN :
              QuestionBrainstormerRun(t, TRUE, TRUE, c, setOk) =>
                /\ calls' = calls /\ store' = store /\ emitted' = emitted
                /\ pc'[t]["question-brainstormer"] = "error"
                /\ local'[t]["question-brainstormer"][1] \in
                     {"Seed topic not found or invalid in state",
                      "Extracted content not found or empty in state"}]_vars
  /\ [][\A t \in TraceIds :
          (pc[t]["question-brainstormer"] = "error" /\ ~Brainstormable(t)
           /\ QuestionBrainstormerEmitError(t, TRUE)) =>
            /\ ErrorsOf(t, "question-brainstormer")' # {}
            /\ "questions.generated" \notin EmittedTopics(t)']_vars
  /\ [](\A t \in TraceIds :
          ~Brainstormable(t) =>
            /\ BrainstormerCalls(t) = <<>>
            /\ GeneratedQuestions(t) = None
            /\ "questions.generated" \notin EmittedTopics(t))
  /\ [][\A t \in TraceIds :
          (Pending(t, "question-brainstormer") /\ NothingUsable(t)) =>
            \A c \in WideQuestionCompletions :
              (c.kind = "json" /\ PolicyArray(c.json, "questions") # None
               /\ StringsOf(PolicyArray(c.json, "questions")[1]) # <<>>
               /\ QuestionBrainstormerRun(t, TRUE, TRUE, c, TRUE)) =>
                /\ calls'[t] = Append(calls[t], Call("completion", "question-brainstormer", <<>>))
                /\ GeneratedQuestions(t)' = Some(StringsOf(PolicyArray(c.json, "questions")[1]))
                /\ pc'[t]["question-brainstormer"] = "emit"]_vars

\* the stored list was empty: workflow.error is emitted, no request was made
C40_Witness ==
  \E t \in TraceIds :
    /\ SeedTopic(t) # None
    /\ Extracted(t) = Some(<<>>)
    /\ \E i \in ErrorsOf(t, "question-brainstormer") :
         emitted[t][i].data.error = "Extracted content not found or empty in state"
    /\ BrainstormerCalls(t) = <<>>

====
